---- MODULE Spec2Model ----
(***************************************************************************)
(* Distill: the agentic tool-calling loop of src/distill/agent.py          *)
(* (run / execute_tool over the module-level state dict) together with     *)
(* the step handlers it dispatches to.                                     *)
(*                                                                         *)
(* The reasoning service, the extraction service and the generative        *)
(* service are external: each call is a nondeterministic choice over the   *)
(* answers (or exceptions) the call can produce.                           *)
(***************************************************************************)
EXTENDS Integers, Sequences, FiniteSets, TLC

(* ------------------------------ bounds -------------------------------- *)

\* Total number of execute_tool calls explored (over all runs).
MaxExec == 3

\* Number of run() calls made one after the other in the same process.
MaxRuns == 2

\* execute_tool calls per process when every turn requests one invocation.
MaxSteps == 4

\* Entries of the sections dict handed to prepare_content.
MaxSections == 3

\* Titles in the list handed to filter_vault_notes, and the largest
\* max_notes.
MaxTitles == 3
MaxNotes == 2

\* Calls of extract_content, and the length of the strings of a record
\* handed to _save_cache.
MaxCalls == 2
MaxStr == 2

\* The writes in which the buffered text of a record reaches the file.
MaxFlushes == 2
MaxPipeline == 5
MaxTurns == 2

\* Length of the long section bodies and of the long fallback text.
LongLen == 400

(* ------------------------- the step catalog --------------------------- *)

\* agent.py TOOLS: the names of the six tool schemas, in list order.
TOOLS ==
    << "parse_paper", "scan_vault", "digest_paper",
       "link_concepts", "identify_gaps", "write_note" >>

ToolNames == { TOOLS[i] : i \in 1..Len(TOOLS) }

\* A name the catalog does not hold (the service is a black box and may
\* request it); execute_tool's final else branch answers it.
RequestNames == ToolNames \cup { "summarize" }

\* The preconditions each schema's description declares ("Requires ... to
\* have been called first").
Requires(name) ==
    CASE name = "digest_paper"  -> { "parse_paper" }
      [] name = "link_concepts" -> { "digest_paper", "scan_vault" }
      [] name = "identify_gaps" -> { "digest_paper" }
      [] name = "write_note"    -> { "digest_paper", "identify_gaps" }
      [] OTHER                  -> { }

\* The key of the state dict under which execute_tool stores a step's output.
OutputKey(name) ==
    CASE name = "parse_paper"   -> "paper"
      [] name = "scan_vault"    -> "vault_notes"
      [] name = "digest_paper"  -> "digest"
      [] name = "link_concepts" -> "linked_concepts"
      [] name = "identify_gaps" -> "gaps"
      [] OTHER                  -> "none"

\* ActiveTools with the vault steps kept whatever the vault path is.
ActiveTools_all(vp) == TOOLS

\* run(): the tool list sent to the reasoning service.
ActiveTools(vp) ==
    IF vp # "None"
    THEN TOOLS
    ELSE SelectSeq(TOOLS, LAMBDA t : t \notin { "scan_vault", "link_concepts" })

\* _build_system_prompt: the steps the instruction lists, in its order.
_build_system_prompt(vp) ==
    IF vp # "None"
    THEN << "parse_paper", "scan_vault", "digest_paper", "link_concepts",
            "identify_gaps", "write_note" >>
    ELSE << "parse_paper", "digest_paper", "identify_gaps", "write_note" >>

VaultPaths == { "None", "/vault" }

(* ----------------------------- the state dict ------------------------- *)

\* set(seq): the elements of a list.
Range(seq) == { seq[i] : i \in 1..Len(seq) }

\* A Python dict: a function whose domain is the set of keys present.
EmptyDict == [ k \in {} |-> 0 ]

\* Put that replaces the whole dict by the new entry.
Put_replace(st, k, v) == [ x \in { k } |-> v ]

\* state[k] = v
Put(st, k, v) ==
    [ x \in (DOMAIN st) \cup { k } |-> IF x = k THEN v ELSE st[x] ]

(* ------------------------- results of execute_tool -------------------- *)

\* json.dumps({"status": "success", ...})
Success == [ status |-> "success", error |-> "" ]

\* json.dumps({"error": msg})
Error(msg) == [ status |-> "error", error |-> msg ]

NoResult == [ status |-> "none", error |-> "" ]

\* execute_tool returned r, leaving the dict as st; h is the handler it
\* called ("none" when it called none), raw the text the generative service
\* answered during the call ("" when it was not asked or did not answer).
Returned(st, r, h) ==
    [ result |-> r, state |-> st, exc |-> "none", handler |-> h, raw |-> "" ]

\* execute_tool raised e, leaving the dict as st.
Raised(st, e, h) ==
    [ result |-> NoResult, state |-> st, exc |-> e, handler |-> h, raw |-> "" ]

(* ------------------------- the step handlers -------------------------- *)

\* What client.messages.create returns inside a handler: the raw text of
\* the answer, by the shape _parse_llm_json distinguishes.  "json_bad_field"
\* is a JSON object one of whose fields has another type than the prompt
\* asked for.
RawTexts == { "json", "fenced_json", "not_json", "json_bad_field" }

\* _parse_llm_json that answers an empty object for text it cannot parse.
_parse_llm_json_lenient(raw) == "dict"

\* digest.py _parse_llm_json: "dict" when json.loads accepts the stripped
\* text or the body of its first code fence, "ValueError" otherwise.
_parse_llm_json(raw) ==
    IF raw \in { "json", "json_bad_field" } THEN "dict"
    ELSE IF raw = "fenced_json" THEN "dict"
    ELSE "ValueError"

\* A handler's outcomes: it returns a value, or raises at a named place.
Ret(v) ==
    [ kind |-> "return", at |-> "", bad_field |-> FALSE, value |-> v, raw |-> "" ]
RetBad(v) ==
    [ kind |-> "return", at |-> "", bad_field |-> TRUE, value |-> v, raw |-> "" ]
Raise(at) ==
    [ kind |-> "raise", at |-> at, bad_field |-> FALSE, value |-> [ stamp |-> 0 ],
      raw |-> "" ]

\* A handler that asks the generative service for JSON (digest_paper,
\* identify_gaps, link_concepts): the call fails, or its text does not
\* parse, or the parsed object is turned into the value v.
AskJson(v) ==
    { Raise("messages.create") }
    \cup { [ ( IF _parse_llm_json(raw) = "ValueError"
               THEN Raise("_parse_llm_json")
               ELSE IF raw = "json_bad_field" THEN RetBad(v) ELSE Ret(v) )
             EXCEPT !.raw = raw ]
         : raw \in RawTexts }

\* parser.py parse_paper: fetch_pdf or extract_content raises, or a
\* PaperData is returned (figure extraction failures are swallowed).
parse_paper(stamp) ==
    { Raise("fetch_pdf"), Raise("extract_content"), Ret([ stamp |-> stamp ]) }

\* The numbers of notes a vault directory may hold: a small vault, and any
\* vault around the size from which execute_tool filters the titles.
LargeVault == 500
SmallVault == { 0, 1 }
AnyVault == { 0, 1, LargeVault, LargeVault + 1 }

\* vault.py scan_vault: the path is missing or no directory, or the sorted
\* list of titles is returned (here: how many titles it has, one of
\* sizes, and whether it is empty).
scan_vault(sizes, stamp) ==
    { Raise("scan_vault") }
    \cup { Ret([ stamp |-> stamp, empty |-> n = 0, count |-> n ]) : n \in sizes }

\* vault.py filter_vault_notes, by the length of the list: the list itself
\* when it has at most max_notes titles, scored[:max_notes] of the longer
\* list otherwise.
DefaultMaxNotes == 500
filter_vault_notes_count(count, max_notes) ==
    IF count <= max_notes THEN count
    ELSE max_notes

\* execute_tool, scan_vault branch: the titles of a vault of more than 500
\* notes are filtered when a paper is in the dict.
Prefiltered(st, o) ==
    IF o.kind = "return" /\ "paper" \in DOMAIN st /\ o.value.count > LargeVault
    THEN [ o EXCEPT !.value.count = filter_vault_notes_count(@, DefaultMaxNotes) ]
    ELSE o

\* digest.py digest_paper
digest_paper(paper, stamp) ==
    AskJson([ stamp |-> stamp, paper |-> paper.stamp, linked_by |-> 0 ])

\* agents/gaps.py identify_gaps.  Its closing print takes len() of
\* open_questions and extension_ideas, so a bad field either raises there
\* or (methodological_gaps) is returned inside the ResearchGaps.
identify_gaps(digest, stamp) ==
    AskJson([ stamp |-> stamp, digest |-> digest.stamp ])
    \cup { Raise("identify_gaps.print") }

\* linker.py link_concepts: with no vault notes the digest is returned as
\* it is, with no service call; otherwise a new digest with the linked
\* text fields.  Its print takes len(linked_concepts), so a bad field
\* raises inside the handler.
link_concepts(digest, vault_notes, stamp) ==
    IF vault_notes.empty
    THEN { Ret([ digest |-> digest, linked_concepts |-> [ stamp |-> stamp, empty |-> TRUE ] ]) }
    ELSE { IF o.kind = "return" /\ o.bad_field
           THEN [ Raise("link_concepts.print") EXCEPT !.raw = o.raw ]
           ELSE o
           : o \in AskJson([ digest |-> [ digest EXCEPT !.linked_by = stamp ],
                             linked_concepts |-> [ stamp |-> stamp, empty |-> FALSE ] ]) }

\* write.py render_note: the note is written, or rendering raises.
render_note(stamp) ==
    { Raise("render_note"), Ret([ stamp |-> stamp ]) }

(* ----------------------------- execute_tool --------------------------- *)

\* Dispatch whose last branch (write_note) is a plain else.
Dispatch_default(name) == IF name \in ToolNames THEN name ELSE "write_note"

\* The if/elif chain of execute_tool: the branch a name selects.
Dispatch(name) == IF name \in ToolNames THEN name ELSE "else"

\* The precondition checks execute_tool makes for a step, in code order:
\* the message of the first check that fails, "" when none fails.
PreconditionError(name, st) ==
    CASE name = "digest_paper" ->
            IF "paper" \notin DOMAIN st THEN "Must call parse_paper first" ELSE ""
      [] name = "link_concepts" ->
            IF "digest" \notin DOMAIN st THEN "Must call digest_paper first"
            ELSE IF "vault_notes" \notin DOMAIN st THEN "Must call scan_vault first"
            ELSE ""
      [] name = "identify_gaps" ->
            IF "digest" \notin DOMAIN st THEN "Must call digest_paper first" ELSE ""
      [] name = "write_note" ->
            IF "digest" \notin DOMAIN st THEN "Must call digest_paper first" ELSE ""
      [] OTHER -> ""

\* PreconditionFailure with the error raised instead of returned.
PreconditionFailure_raises(st, msg) == Raised(st, msg, "none")

\* A failed check: execute_tool returns the error as the tool's result.
PreconditionFailure(st, msg) == Returned(st, Error(msg), "none")

\* The final else branch.
UnknownTool(st, name) == Returned(st, Error("Unknown tool: " \o name), "none")

\* StateAtRaise with the step's entry written before the handler is called.
StateAtRaise_early(st, key, stamp) == Put(st, key, [ stamp |-> stamp ])

\* The dict when a handler raises: the assignment state[key] = ... follows
\* the handler call, so it has not happened.
StateAtRaise(st, key, stamp) == st

\* HandlerFailure with the exception caught and returned as an error result.
HandlerFailure_caught(st, key, stamp, at, h) == Returned(st, Error(at), h)

\* A handler raised: nothing in execute_tool or run catches it.
HandlerFailure(st, key, stamp, at, h) == Raised(StateAtRaise(st, key, stamp), at, h)

\* The branch of a step that stores the handler's value under key and
\* returns a summary of it; summary_raises when building the summary takes
\* len() or a slice of a field the service may have mistyped.
StoreAndSummarize(st, key, stamp, outs, h, summary_raises) ==
    { [ ( IF o.kind = "raise" THEN HandlerFailure(st, key, stamp, o.at, h)
          ELSE IF o.bad_field /\ summary_raises
               THEN Raised(Put(st, key, o.value), "summary", h)
               ELSE Returned(Put(st, key, o.value), Success, h) )
        EXCEPT !.raw = o.raw ]
    : o \in outs }

\* execute_tool(name, tool_input) on the dict st: the set of its outcomes.
\* input_ok: tool_input holds the parameters the branch subscripts; sizes:
\* the numbers of notes the directory tool_input names may hold.
execute_tool(name, input_ok, sizes, st, stamp) ==
    LET branch == Dispatch(name)
        err == PreconditionError(branch, st)
    IN  CASE branch = "parse_paper" ->
                IF ~input_ok THEN { Raised(st, "tool_input", "none") }
                ELSE StoreAndSummarize(st, "paper", stamp, parse_paper(stamp), branch, FALSE)
          [] branch = "scan_vault" ->
                IF ~input_ok THEN { Raised(st, "tool_input", "none") }
                ELSE StoreAndSummarize(st, "vault_notes", stamp,
                                       { Prefiltered(st, o) : o \in scan_vault(sizes, stamp) },
                                       branch, FALSE)
          [] branch = "digest_paper" ->
                IF err # "" THEN { PreconditionFailure(st, err) }
                ELSE StoreAndSummarize(st, "digest", stamp,
                                       digest_paper(st["paper"], stamp), branch, TRUE)
          [] branch = "link_concepts" ->
                IF err # "" THEN { PreconditionFailure(st, err) }
                ELSE { [ ( IF o.kind = "raise"
                           THEN HandlerFailure(st, "linked_concepts", stamp, o.at, branch)
                           ELSE Returned(Put(Put(st, "digest", o.value.digest),
                                             "linked_concepts", o.value.linked_concepts),
                                         Success, branch) )
                         EXCEPT !.raw = o.raw ]
                     : o \in link_concepts(st["digest"], st["vault_notes"], stamp) }
          [] branch = "identify_gaps" ->
                IF err # "" THEN { PreconditionFailure(st, err) }
                ELSE IF "paper" \notin DOMAIN st THEN { Raised(st, "state[paper]", "none") }
                ELSE StoreAndSummarize(st, "gaps", stamp,
                                       identify_gaps(st["digest"], stamp), branch, TRUE)
          [] branch = "write_note" ->
                IF err # "" THEN { PreconditionFailure(st, err) }
                ELSE IF "paper" \notin DOMAIN st THEN { Raised(st, "state[paper]", "none") }
                ELSE IF ~input_ok THEN { Raised(st, "tool_input", "none") }
                ELSE { IF o.kind = "raise"
                       THEN HandlerFailure(st, "none", stamp, o.at, branch)
                       ELSE Returned(st, Success, branch)
                     : o \in render_note(stamp) }
          [] OTHER -> { UnknownTool(st, name) }

(* --------------------------- prepare_content -------------------------- *)

\* A Python str is the sequence of its characters.
Whitespace == { " ", "\n", "\t" }
Digits == { "0", "1", "2", "3", "4", "5", "6", "7", "8", "9" }
UpperCase == << "A", "B", "C", "D", "E", "F", "G", "H", "I", "J", "K", "L", "M", "N", "O", "P", "Q", "R", "S", "T", "U", "V", "W", "X", "Y", "Z" >>
LowerCase == << "a", "b", "c", "d", "e", "f", "g", "h", "i", "j", "k", "l", "m", "n", "o", "p", "q", "r", "s", "t", "u", "v", "w", "x", "y", "z" >>

\* str.lower()
LowerOf == [ c \in { UpperCase[j] : j \in 1..Len(UpperCase) } |->
               LowerCase[CHOOSE j \in 1..Len(UpperCase) : UpperCase[j] = c] ]
lower(s) == [ i \in 1..Len(s) |-> IF s[i] \in DOMAIN LowerOf THEN LowerOf[s[i]] ELSE s[i] ]

\* s[:n] for n >= 0
Prefix(s, n) == SubSeq(s, 1, IF n < Len(s) THEN n ELSE Len(s))

\* The first index from i upwards whose character is not in cs (Len(s) + 1
\* if there is none), and the last index whose character is not in cs (0
\* if there is none).
FirstNotIn(s, cs, i) ==
    CHOOSE k \in i..(Len(s) + 1) :
        /\ k = Len(s) + 1 \/ s[k] \notin cs
        /\ \A j \in i..(k - 1) : s[j] \in cs
LastNotIn(s, cs) ==
    CHOOSE k \in 0..Len(s) :
        /\ k = 0 \/ s[k] \notin cs
        /\ \A j \in (k + 1)..Len(s) : s[j] \in cs

\* str.strip()
strip(s) == SubSeq(s, FirstNotIn(s, Whitespace, 1), LastNotIn(s, Whitespace))

\* needle in hay
contains(needle, hay) ==
    \E i \in 0..(Len(hay) - Len(needle)) : SubSeq(hay, i + 1, i + Len(needle)) = needle

\* "".join(parts)
RECURSIVE join(_)
join(ps) == IF ps = << >> THEN << >> ELSE Head(ps) \o join(Tail(ps))

PRIORITY_SECTIONS ==
    << << "A", "b", "s", "t", "r", "a", "c", "t" >>,
       << "I", "n", "t", "r", "o", "d", "u", "c", "t", "i", "o", "n" >>,
       << "M", "e", "t", "h", "o", "d", "s" >>,
       << "M", "e", "t", "h", "o", "d", "o", "l", "o", "g", "y" >>,
       << "M", "e", "t", "h", "o", "d" >>,
       << "A", "p", "p", "r", "o", "a", "c", "h" >>,
       << "M", "o", "d", "e", "l" >>,
       << "R", "e", "s", "u", "l", "t", "s" >>,
       << "E", "x", "p", "e", "r", "i", "m", "e", "n", "t", "s" >>,
       << "E", "v", "a", "l", "u", "a", "t", "i", "o", "n" >>,
       << "D", "i", "s", "c", "u", "s", "s", "i", "o", "n" >>,
       << "C", "o", "n", "c", "l", "u", "s", "i", "o", "n" >>,
       << "C", "o", "n", "c", "l", "u", "s", "i", "o", "n", "s" >>,
       << "R", "e", "l", "a", "t", "e", "d", " ", "W", "o", "r", "k" >>,
       << "B", "a", "c", "k", "g", "r", "o", "u", "n", "d" >> >>

\* re.sub(r"^[\d\.\:\s]+", "", section_name).strip().lower(), then
\* priority.lower() in cleaned
_fuzzy_match_section(section_name, priority) ==
    LET lead == Digits \cup { ".", ":" } \cup Whitespace
        cleaned == lower(strip(SubSeq(section_name, FirstNotIn(section_name, lead, 1),
                                      Len(section_name))))
    IN  contains(lower(priority), cleaned)

Title == << "T", "i", "t", "l", "e" >>
ContentTruncated == << "\n", "\n", "[", "C", "o", "n", "t", "e", "n", "t", " ", "t", "r", "u", "n", "c", "a", "t", "e", "d", " ", "d", "u", "e", " ", "t", "o", " ", "l", "e", "n", "g", "t", "h", "]" >>
Truncated == << "\n", "\n", "[", "T", "r", "u", "n", "c", "a", "t", "e", "d", "]", "\n", "\n" >>

\* f"## {name}\n\n"
Header(name) == << "#", "#", " " >> \o name \o << "\n", "\n" >>

\* header + text.strip() + "\n\n"
Entry(name, text) == Header(name) \o strip(text) \o << "\n", "\n" >>

\* remaining with nothing reserved for the header and the marker.
remaining_unreserved(max_chars, char_count, header) == max_chars - char_count

\* remaining = max_chars - char_count - len(header) - 50
remaining(max_chars, char_count, header) == max_chars - char_count - Len(header) - 50

\* header + text[:remaining].strip() + "\n\n[Truncated]\n\n"
TruncatedEntry(name, text, rem) == Header(name) \o strip(Prefix(text, rem)) \o Truncated

\* real_sections with the "Title" entry kept.
real_sections_all(sections) == sections

\* {k: v for k, v in sections.items() if k != "Title"}: a dict keeps the
\* order in which its keys were inserted.
real_sections(sections) == SelectSeq(sections, LAMBDA e : e.name # Title)

\* len(real_sections) < 2
Sparse_two(real) == Len(real) < 2

\* len(real_sections) < 3
Sparse(real) == Len(real) < 3

\* The sparse branch: full_text[:max_chars], and the marker if it was cut.
Fallback(full_text, max_chars) ==
    Prefix(full_text, max_chars)
    \o ( IF Len(full_text) > max_chars THEN ContentTruncated ELSE << >> )

\* The locals parts, used, char_count.
Emitted(acc, name, entry) ==
    [ parts |-> Append(acc.parts, entry),
      used |-> acc.used \cup { name },
      char_count |-> acc.char_count + Len(entry) ]

\* The inner loop of the first pass for one priority, from the i-th block
\* on.  On overflow the block is truncated when remaining > 200, and the
\* break leaves this loop.
RECURSIVE FirstPassInner(_, _, _, _, _)
FirstPassInner(real, i, priority, max_chars, acc) ==
    IF i > Len(real) THEN acc
    ELSE LET name == real[i].name
             text == real[i].text
             entry == Entry(name, text)
             rem == remaining(max_chars, acc.char_count, Header(name))
             cut == TruncatedEntry(name, text, rem)
         IN  IF name \in acc.used \/ ~_fuzzy_match_section(name, priority)
             THEN FirstPassInner(real, i + 1, priority, max_chars, acc)
             ELSE IF acc.char_count + Len(entry) > max_chars
             THEN IF rem > 200
                  THEN [ acc EXCEPT !.parts = Append(@, cut),
                                    !.char_count = @ + Len(cut) ]
                  ELSE acc
             ELSE FirstPassInner(real, i + 1, priority, max_chars,
                                 Emitted(acc, name, entry))

\* for priority in PRIORITY_SECTIONS, from the p-th priority on.
RECURSIVE FirstPass(_, _, _, _)
FirstPass(real, p, max_chars, acc) ==
    IF p > Len(PRIORITY_SECTIONS) THEN acc
    ELSE FirstPass(real, p + 1, max_chars,
                   FirstPassInner(real, 1, PRIORITY_SECTIONS[p], max_chars, acc))

\* The second pass, from the i-th block on.  A truncated entry is appended
\* without being counted, and the break ends the pass.
RECURSIVE SecondPass(_, _, _, _)
SecondPass(real, i, max_chars, acc) ==
    IF i > Len(real) THEN acc
    ELSE LET name == real[i].name
             text == real[i].text
             entry == Entry(name, text)
             rem == remaining(max_chars, acc.char_count, Header(name))
         IN  IF name \in acc.used
             THEN SecondPass(real, i + 1, max_chars, acc)
             ELSE IF acc.char_count + Len(entry) > max_chars
             THEN IF rem > 200
                  THEN [ acc EXCEPT !.parts = Append(@, TruncatedEntry(name, text, rem)) ]
                  ELSE acc
             ELSE SecondPass(real, i + 1, max_chars, Emitted(acc, name, entry))

\* The list `parts` when prepare_content returns (empty in the sparse
\* branch, which never builds it).
prepare_parts(sections, max_chars) ==
    LET real == real_sections(sections)
        start == [ parts |-> << >>, used |-> {}, char_count |-> 0 ]
    IN  IF Sparse(real) THEN << >>
        ELSE SecondPass(real, 1, max_chars, FirstPass(real, 1, max_chars, start)).parts

prepare_content(sections, full_text, max_chars) ==
    IF Sparse(real_sections(sections))
    THEN Fallback(full_text, max_chars)
    ELSE join(prepare_parts(sections, max_chars))

VARIABLES
    sections,       \* prepare_content: its argument, the entries in dict order
    full_text,      \* prepare_content: its argument
    max_chars,      \* prepare_content: its argument
    parts,          \* prepare_content: the list parts when it returns
    prepared,       \* prepare_content: the string it returns
    cpc             \* where the call of prepare_content is

cvars == << sections, full_text, max_chars, parts, prepared, cpc >>

\* Section bodies: a short one with leading whitespace, a long one of
\* words, and a long one that is blank but for its first and last
\* characters; extract_content ends every body with a blank line.
ShortText == << " ", "o", "k", "\n", "\n" >>
LongText ==
    [ i \in 1..LongLen |-> IF i % 10 = 0 THEN " " ELSE "x" ] \o << "\n", "\n" >>
GappyText ==
    [ i \in 1..LongLen |-> IF i <= 5 \/ i > LongLen - 5 THEN "x" ELSE " " ]
    \o << "\n", "\n" >>

SectionNames ==
    { Title, << "1", ".", " ", "A", "b", "s", "t", "r", "a", "c", "t" >>,
      << "2", ".", " ", "M", "e", "t", "h", "o", "d", "s" >>,
      << "R", "e", "s", "u", "l", "t", "s" >>,
      << "A", "p", "p", "e", "n", "d", "i", "x" >> }
SectionTexts == { ShortText, LongText, GappyText }

\* The sections dicts: up to MaxSections entries with distinct names.
SectionInputs ==
    LET blocks == { [ name |-> n, text |-> t ]
                    : n \in SectionNames \ { Title }, t \in SectionTexts }
                  \cup { [ name |-> Title, text |-> ShortText ] }
    IN  { s \in UNION { [ 1..k -> blocks ] : k \in 0..MaxSections } :
            \A i, j \in 1..Len(s) : s[i].name = s[j].name => i = j }

\* The fallback texts (gaps.py passes the empty string) and the budgets.
FullTexts == { << >>, LongText }
Budgets == { 50, 300, LongLen + 2, 700 }

(* -------------------------- filter_vault_notes ------------------------ *)

\* The characters in code-point order, and the place of each: Python
\* compares strings by code point.
CodePoints ==
    << " ", "-", "." >> \o << "0", "1", "2", "3", "4", "5", "6", "7", "8", "9" >>
    \o << ":" >> \o UpperCase \o << "_" >> \o LowerCase
OrdOf == [ c \in { CodePoints[i] : i \in 1..Len(CodePoints) } |->
             CHOOSE i \in 1..Len(CodePoints) : CodePoints[i] = c ]

\* a < b for strings
StrLess(a, b) ==
    \E k \in 1..(Len(a) + 1) :
       /\ k <= Len(b)
       /\ \A j \in 1..(k - 1) : a[j] = b[j]
       /\ k = Len(a) + 1 \/ OrdOf[a[k]] < OrdOf[b[k]]

\* \w of a regular expression: letters, digits and the underscore.
WordChars == { UpperCase[i] : i \in 1..Len(UpperCase) }
             \cup { LowerCase[i] : i \in 1..Len(LowerCase) }
             \cup Digits \cup { "_" }
NonWordChars == { CodePoints[i] : i \in 1..Len(CodePoints) } \ WordChars

\* The pieces of s between the runs of characters of delims, from the i-th
\* character on, cur being the piece under way: re.split(r"[delims]+", s).
\* A string that starts or ends with a delimiter gives an empty piece
\* there.
RECURSIVE Pieces(_, _, _, _)
Pieces(s, delims, i, cur) ==
    IF i > Len(s) THEN << cur >>
    ELSE IF s[i] \notin delims THEN Pieces(s, delims, i + 1, Append(cur, s[i]))
    ELSE IF i > 1 /\ s[i - 1] \in delims THEN Pieces(s, delims, i + 1, cur)
    ELSE << cur >> \o Pieces(s, delims, i + 1, << >>)

\* re.split(r"\W+", s)
re_split_W(s) == Pieces(s, NonWordChars, 1, << >>)

\* str.split(): the pieces between runs of whitespace, none of them empty.
split(s) == SelectSeq(Pieces(s, Whitespace, 1, << >>), LAMBDA w : w # << >>)

\* str.replace("-", " ")
replace_hyphen(s) == [ i \in 1..Len(s) |-> IF s[i] = "-" THEN " " ELSE s[i] ]

\* keywords.update(kw.lower().replace("-", " ").split())
KeywordTokens(kw) == Range(split(replace_hyphen(lower(kw))))

\* for word in re.split(r"\W+", paper_title.lower()): if len(word) > 2
TitleTokens(paper_title) == { w \in Range(re_split_W(lower(paper_title))) : Len(w) > 2 }

\* The set keywords.
Keywords(paper_keywords, paper_title) ==
    UNION { KeywordTokens(paper_keywords[i]) : i \in 1..Len(paper_keywords) }
    \cup TitleTokens(paper_title)

\* overlap = len(set(re.split(r"\W+", title.lower())) & keywords)
Overlap(title, keywords) == Cardinality(Range(re_split_W(lower(title))) \cap keywords)

\* key=lambda x: (-x[0], x[1]) without the title: ties keep their order.
KeyLess_score_only(a, b) == a.overlap > b.overlap

\* key(a) < key(b) for key=lambda x: (-x[0], x[1])
KeyLess(a, b) ==
    \/ a.overlap > b.overlap
    \/ a.overlap = b.overlap /\ StrLess(a.title, b.title)

\* list.sort left out: the scored list as it was built.
Sorted_as_built(scored) == scored

\* list.sort is stable: x goes before the first element whose key is
\* greater than its own.
RECURSIVE Insert(_, _)
Insert(sorted, x) ==
    IF sorted = << >> THEN << x >>
    ELSE IF KeyLess(x, Head(sorted)) THEN << x >> \o sorted
    ELSE << Head(sorted) >> \o Insert(Tail(sorted), x)
RECURSIVE Sorted(_)
Sorted(scored) ==
    IF scored = << >> THEN << >>
    ELSE Insert(Sorted(SubSeq(scored, 1, Len(scored) - 1)), scored[Len(scored)])

\* scored[:max_notes] taken one element too long.
Capped_one_more(scored, max_notes) == Prefix(scored, max_notes + 1)

\* scored[:max_notes]
Capped(scored, max_notes) == Prefix(scored, max_notes)

filter_vault_notes(titles, paper_keywords, paper_title, max_notes) ==
    IF Len(titles) <= max_notes THEN titles
    ELSE LET keywords == Keywords(paper_keywords, paper_title)
             scored == [ i \in 1..Len(titles) |->
                           [ overlap |-> Overlap(titles[i], keywords), title |-> titles[i] ] ]
             top == Capped(Sorted(scored), max_notes)
         IN  [ i \in 1..Len(top) |-> top[i].title ]

VARIABLES
    titles,         \* filter_vault_notes: its argument
    paper_keywords, \* filter_vault_notes: its argument
    paper_title,    \* filter_vault_notes: its argument
    max_notes,      \* filter_vault_notes: its argument
    filtered,       \* filter_vault_notes: the list it returns
    fpc             \* where the call of filter_vault_notes is

fvars == << titles, paper_keywords, paper_title, max_notes, filtered, fpc >>

\* Note titles (scan_vault may return a title twice: the same file name in
\* two folders), keyword lists (tags, section names) and paper titles.
NoteTitles ==
    { << "S", "p", "e", "e", "c", "h", " ", "S", "y", "n", "t", "h", "e", "s", "i", "s" >>,
      << "s", "p", "e", "e", "c", "h" >>,
      << "Z", "e", "t", "a" >>,
      << "a", "l", "p", "h", "a" >>,
      << "o", "f", " ", "T", "T", "S" >> }
TitleLists == UNION { [ 1..k -> NoteTitles ] : k \in 0..MaxTitles }
KeywordLists ==
    { << >>,
      << << "s", "p", "e", "e", "c", "h" >>, << "s", "y", "n", "t", "h", "e", "s", "i", "s" >> >>,
      << << "S", "t", "a", "t", "e", "-", "o", "f", "-", "A", "r", "t" >> >> }
PaperTitles == { << >>, << "O", "n", " ", "S", "p", "e", "e", "c", "h" >> }

(* ------------------------------ the cache ----------------------------- *)

CACHE_SUFFIX == ".cache.json"

_get_cache_path(path) == path \o CACHE_SUFFIX

\* The values json.dump writes and json.load builds: None, a str (a
\* sequence of characters), a list, and a dict, whose members are kept in
\* insertion order as records [k, v].
None == [ t |-> "null", v |-> << >> ]
Str(s) == [ t |-> "str", v |-> s ]
List(items) == [ t |-> "list", v |-> items ]
Dict(members) == [ t |-> "dict", v |-> members ]

\* a == b for two such values.
RECURSIVE Same(_, _)
Same(a, b) ==
    /\ a.t = b.t
    /\ Len(a.v) = Len(b.v)
    /\ CASE a.t = "str" -> a.v = b.v
         [] a.t = "list" -> \A i \in 1..Len(a.v) : Same(a.v[i], b.v[i])
         [] a.t = "dict" -> \A i \in 1..Len(a.v) :
                               a.v[i].k = b.v[i].k /\ Same(a.v[i].v, b.v[i].v)
         [] OTHER -> TRUE

\* The byte 0, which fills the gap when a file is written beyond its end.
Nul == "NUL"

\* A character outside ASCII (U+00E9).
NonAscii == "U+00E9"
UnicodeEscape == << "\\", "u", "0", "0", "e", "9" >>

\* json.dump writes every character of a str as it is.
EscapeChar_raw(c) == << c >>

\* json.dump (ensure_ascii) escapes the quote, the backslash, the control
\* characters and every character outside ASCII.
EscapeChar(c) ==
    CASE c = "\"" -> << "\\", "\"" >>
      [] c = "\\" -> << "\\", "\\" >>
      [] c = "\n" -> << "\\", "n" >>
      [] c = "\t" -> << "\\", "t" >>
      [] c = NonAscii -> UnicodeEscape
      [] OTHER -> << c >>

Quoted(s) == << "\"" >> \o join([ i \in 1..Len(s) |-> EscapeChar(s[i]) ]) \o << "\"" >>

\* sep.join(items)
RECURSIVE join_with(_, _)
join_with(items, sep) ==
    IF items = << >> THEN << >>
    ELSE IF Len(items) = 1 THEN items[1]
    ELSE items[1] \o sep \o join_with(Tail(items), sep)

\* The line break and indentation json.dump(indent=2) writes at depth d.
NewLine(d) == << "\n" >> \o [ i \in 1..(2 * d) |-> " " ]

\* json.dumps(x, indent=2), x at nesting depth d.
RECURSIVE dumps(_, _)
dumps(x, d) ==
    CASE x.t = "null" -> << "n", "u", "l", "l" >>
      [] x.t = "str" -> Quoted(x.v)
      [] x.t = "list" ->
            IF x.v = << >> THEN << "[", "]" >>
            ELSE << "[" >> \o NewLine(d + 1)
                 \o join_with([ i \in 1..Len(x.v) |-> dumps(x.v[i], d + 1) ],
                              << "," >> \o NewLine(d + 1))
                 \o NewLine(d) \o << "]" >>
      [] x.t = "dict" ->
            IF x.v = << >> THEN << "{", "}" >>
            ELSE << "{" >> \o NewLine(d + 1)
                 \o join_with([ i \in 1..Len(x.v) |->
                                  Quoted(x.v[i].k) \o << ":", " " >> \o dumps(x.v[i].v, d + 1) ],
                              << "," >> \o NewLine(d + 1))
                 \o NewLine(d) \o << "}" >>

\* What the decoder gives back from position i on: a value and the
\* position after it, or no value (JSONDecodeError).
NoValue == [ ok |-> FALSE, val |-> None, pos |-> 0 ]
Value(val, pos) == [ ok |-> TRUE, val |-> val, pos |-> pos ]

JsonWhitespace == { " ", "\n", "\t", "\r" }

\* The first position from i on that holds no white space.
SkipWhitespace(s, i) ==
    IF \E j \in i..Len(s) : s[j] \notin JsonWhitespace
    THEN CHOOSE j \in i..Len(s) :
            /\ s[j] \notin JsonWhitespace
            /\ \A k \in i..(j - 1) : s[k] \in JsonWhitespace
    ELSE Len(s) + 1

StartsAt(s, i, lit) ==
    /\ i + Len(lit) - 1 <= Len(s)
    /\ SubSeq(s, i, i + Len(lit) - 1) = lit

\* The str whose opening quote is before position i, acc being the
\* characters decoded so far.
RECURSIVE ParseString(_, _, _)
ParseString(s, i, acc) ==
    IF i > Len(s) THEN NoValue
    ELSE IF s[i] = "\"" THEN Value(Str(acc), i + 1)
    ELSE IF s[i] \in { "\n", "\t", "\r", Nul } THEN NoValue
    ELSE IF s[i] # "\\" THEN ParseString(s, i + 1, Append(acc, s[i]))
    ELSE IF i + 1 > Len(s) THEN NoValue
    ELSE IF s[i + 1] \in { "\"", "\\", "/" } THEN ParseString(s, i + 2, Append(acc, s[i + 1]))
    ELSE IF s[i + 1] = "n" THEN ParseString(s, i + 2, Append(acc, "\n"))
    ELSE IF s[i + 1] = "t" THEN ParseString(s, i + 2, Append(acc, "\t"))
    ELSE IF s[i + 1] = "r" THEN ParseString(s, i + 2, Append(acc, "\r"))
    ELSE IF StartsAt(s, i, UnicodeEscape) THEN ParseString(s, i + 6, Append(acc, NonAscii))
    ELSE NoValue

\* d[k] = v
SetItem(members, k, v) ==
    IF \E i \in 1..Len(members) : members[i].k = k
    THEN [ i \in 1..Len(members) |->
             IF members[i].k = k THEN [ k |-> k, v |-> v ] ELSE members[i] ]
    ELSE Append(members, [ k |-> k, v |-> v ])

\* The decoder: the value that starts at position i0 (after white space);
\* the elements of a list, and the members of a dict, from position i0 on.
\* The records of the cache hold dicts, lists, strs and None.
RECURSIVE ParseValue(_, _)
RECURSIVE ParseElements(_, _, _)
RECURSIVE ParseMembers(_, _, _)
ParseValue(s, i0) ==
    LET i == SkipWhitespace(s, i0)
    IN  IF i > Len(s) THEN NoValue
        ELSE IF s[i] = "\"" THEN ParseString(s, i + 1, << >>)
        ELSE IF StartsAt(s, i, << "n", "u", "l", "l" >>) THEN Value(None, i + 4)
        ELSE IF s[i] = "["
             THEN LET j == SkipWhitespace(s, i + 1)
                  IN  IF j <= Len(s) /\ s[j] = "]" THEN Value(List(<< >>), j + 1)
                      ELSE ParseElements(s, i + 1, << >>)
        ELSE IF s[i] = "{"
             THEN LET j == SkipWhitespace(s, i + 1)
                  IN  IF j <= Len(s) /\ s[j] = "}" THEN Value(Dict(<< >>), j + 1)
                      ELSE ParseMembers(s, i + 1, << >>)
        ELSE NoValue
ParseElements(s, i0, acc) ==
    LET x == ParseValue(s, i0)
        j == SkipWhitespace(s, x.pos)
    IN  IF ~ x.ok \/ j > Len(s) THEN NoValue
        ELSE IF s[j] = "," THEN ParseElements(s, j + 1, Append(acc, x.val))
        ELSE IF s[j] = "]" THEN Value(List(Append(acc, x.val)), j + 1)
        ELSE NoValue
ParseMembers(s, i0, acc) ==
    LET i == SkipWhitespace(s, i0)
        key == IF i <= Len(s) /\ s[i] = "\"" THEN ParseString(s, i + 1, << >>) ELSE NoValue
        c == SkipWhitespace(s, key.pos)
        x == IF key.ok /\ c <= Len(s) /\ s[c] = ":" THEN ParseValue(s, c + 1) ELSE NoValue
        j == SkipWhitespace(s, x.pos)
    IN  IF ~ x.ok \/ j > Len(s) THEN NoValue
        ELSE IF s[j] = "," THEN ParseMembers(s, j + 1, SetItem(acc, key.val.v, x.val))
        ELSE IF s[j] = "}" THEN Value(Dict(SetItem(acc, key.val.v, x.val)), j + 1)
        ELSE NoValue

\* json.load of a file with this text: the value, or no value
\* (JSONDecodeError) when the text is not one JSON value.
json_load(text) ==
    LET x == ParseValue(text, 1)
    IN  IF x.ok /\ SkipWhitespace(text, x.pos) > Len(text) THEN x ELSE NoValue

\* A file: absent, a text file, a file whose bytes are not UTF-8, or
\* something that cannot be opened for reading (no permission, a
\* directory).
Absent == [ kind |-> "absent", text |-> << >> ]
TextFile(text) == [ kind |-> "text", text |-> text ]
NotUtf8 == [ kind |-> "bytes", text |-> << >> ]
Unreadable == [ kind |-> "unreadable", text |-> << >> ]

\* What _load_cache does: the loaded data, None, or an exception that it
\* does not catch.
Loaded(data) == [ kind |-> "data", val |-> data ]
LoadedNone == [ kind |-> "None", val |-> None ]
LoadRaises(error) == [ kind |-> error, val |-> None ]

\* _load_cache that never finds a record.
_load_cache_miss(fs, path) == LoadedNone

_load_cache(fs, path) ==
    LET f == fs[_get_cache_path(path)]
    IN  CASE f.kind = "absent" -> LoadedNone
          [] f.kind = "unreadable" -> LoadedNone
          [] f.kind = "bytes" -> LoadRaises("UnicodeDecodeError")
          [] f.kind = "text" ->
                IF json_load(f.text).ok THEN Loaded(json_load(f.text).val)
                ELSE LoadedNone

\* _save_cache that writes nothing.
_save_cache_skipped(fs, ro, path, data) == fs

\* The files after _save_cache: an IOError of open(cache_path, "w") is
\* caught and leaves them as they are; a file that cannot be read stays
\* so when it is written.
_save_cache(fs, ro, path, data) ==
    LET cache_path == _get_cache_path(path)
    IN  IF cache_path \in ro THEN fs
        ELSE IF fs[cache_path].kind = "unreadable"
             THEN [ fs EXCEPT ![cache_path].text = dumps(data, 0) ]
        ELSE [ fs EXCEPT ![cache_path] = TextFile(dumps(data, 0)) ]

\* The text of a file after chunk was written at offset off.
WriteAt(text, off, chunk) ==
    LET padded == IF Len(text) < off
                  THEN text \o [ i \in 1..(off - Len(text)) |-> Nul ]
                  ELSE text
    IN  SubSeq(padded, 1, off) \o chunk \o SubSeq(padded, off + Len(chunk) + 1, Len(padded))

\* The file after open(cache_path, "w"): it is empty.
Truncated_file(f) == [ kind |-> IF f.kind = "unreadable" THEN "unreadable" ELSE "text", text |-> << >> ]

\* The size of the writes in which text reaches the file.
ChunkLen(text) == (Len(text) + MaxFlushes - 1) \div MaxFlushes

\* Paragraph roles; a paragraph without a role has the role << >>.
pageHeader == << "p", "a", "g", "e", "H", "e", "a", "d", "e", "r" >>
pageFooter == << "p", "a", "g", "e", "F", "o", "o", "t", "e", "r" >>
pageNumber == << "p", "a", "g", "e", "N", "u", "m", "b", "e", "r" >>
sectionHeading == << "s", "e", "c", "t", "i", "o", "n", "H", "e", "a", "d", "i", "n", "g" >>
title_role == << "t", "i", "t", "l", "e" >>
footnote == << "f", "o", "o", "t", "n", "o", "t", "e" >>
Paragraph(role, text) == [ role |-> role, content |-> text ]

\* sections.setdefault(k, "")
SetDefault(members, k) ==
    IF \E i \in 1..Len(members) : members[i].k = k THEN members
    ELSE Append(members, [ k |-> k, v |-> Str(<< >>) ])

\* sections[k] += text
AddTo(members, k, text) ==
    [ i \in 1..Len(members) |->
        IF members[i].k = k
        THEN [ k |-> k, v |-> Str(members[i].v.v \o text) ]
        ELSE members[i] ]

\* The loop that groups paragraphs into sections, from the i-th paragraph
\* on.
RECURSIVE GroupSections(_, _, _, _)
GroupSections(paragraphs, i, members, current_section) ==
    IF i > Len(paragraphs) THEN members
    ELSE LET para == paragraphs[i]
         IN  IF para.role \in { pageHeader, pageFooter, pageNumber }
             THEN GroupSections(paragraphs, i + 1, members, current_section)
             ELSE IF para.role = sectionHeading
             THEN GroupSections(paragraphs, i + 1,
                                SetDefault(members, strip(para.content)),
                                strip(para.content))
             ELSE IF para.role = title_role
             THEN GroupSections(paragraphs, i + 1,
                                AddTo(SetDefault(members, Title), Title,
                                      para.content \o << "\n" >>),
                                Title)
             ELSE GroupSections(paragraphs, i + 1,
                                AddTo(SetDefault(members, current_section), current_section,
                                      para.content \o << "\n", "\n" >>),
                                current_section)

\* The dict extract_content builds from the analysis result (the tables
\* are given as the markdown _table_to_markdown makes of them).
Output(result) ==
    Dict(<< [ k |-> << "s", "e", "c", "t", "i", "o", "n", "s" >>,
              v |-> Dict(GroupSections(result.paragraphs, 1, << >>, << "A", "b", "s", "t", "r", "a", "c", "t" >>)) ],
            [ k |-> << "t", "a", "b", "l", "e", "s" >>,
              v |-> List([ i \in 1..Len(result.tables) |-> Str(result.tables[i]) ]) ],
            [ k |-> << "f", "u", "l", "l", "_", "t", "e", "x", "t" >>, v |-> Str(result.content) ],
            [ k |-> << "r", "a", "w", "_", "p", "a", "r", "a", "g", "r", "a", "p", "h", "s" >>,
              v |-> List([ i \in 1..Len(result.paragraphs) |->
                             Dict(<< [ k |-> << "r", "o", "l", "e" >>,
                                       v |-> IF result.paragraphs[i].role = << >> THEN None
                                             ELSE Str(result.paragraphs[i].role) ],
                                     [ k |-> << "c", "o", "n", "t", "e", "n", "t" >>,
                                       v |-> Str(result.paragraphs[i].content) ] >>) ]) ] >>)

\* What extract_content does: it returns a dict or raises.
Returns(data) == [ kind |-> "returned", val |-> data ]
Raises(error) == [ kind |-> error, val |-> None ]
NoOutput == [ kind |-> "none", val |-> None ]

VARIABLES
    files,         \* the cache files, by path
    read_only,     \* the paths that cannot be opened for writing
    credentials,   \* AZURE_DOC_INTEL_ENDPOINT and AZURE_DOC_INTEL_KEY are set
    pdf_path,      \* the argument of the last call
    output,        \* what the last call of extract_content did
    service_calls, \* how often the extraction service was called
    ncalls,        \* how often extract_content was called
    record,        \* the data handed to _save_cache
    loaded,        \* what _load_cache did
    kpc,           \* where the round trip _save_cache, _load_cache is
    pdf,           \* what each PDF file holds, by path
    ntemp,         \* how many temporary files fetch_pdf has created
    runs,          \* two calls of extract_content under way at once
    last_writer    \* the call that wrote to the cache file last

kvars == << files, read_only, credentials, pdf_path, output, service_calls,
            ncalls, record, loaded, kpc, pdf, ntemp, runs, last_writer >>

\* The PDF files, and what the extraction service may find in them.
PdfPaths == { "a.pdf", "b.pdf" }
CachePaths == { _get_cache_path(p) : p \in PdfPaths }

\* The sources given as a URL, and the files tempfile.NamedTemporaryFile
\* creates for their downloads: each call creates a file that did not
\* exist, and none is ever deleted (delete=False).
Urls == { "https://arxiv.org/abs/1" }
\* Every download goes to the same temporary file.
TempPath_reused(n) == "tmp1.pdf"
TempPath(n) == "tmp" \o ToString(n) \o ".pdf"
TempPaths == { TempPath(n) : n \in 1..MaxCalls }
AllPaths == PdfPaths \cup TempPaths
AllCachePaths == { _get_cache_path(p) : p \in AllPaths }
Paper ==
    [ paragraphs |-> << Paragraph(pageHeader, << "a", "r", "X", "i", "v" >>),
                        Paragraph(title_role, << "O", "n", " ", "\"", "X", "\"" >>),
                        Paragraph(<< >>, << "W", "e", "\n", "s", "h", "o", "w", "." >>),
                        Paragraph(sectionHeading, << " ", "1", " ", "I", "n", "t", "r", "o", " " >>),
                        Paragraph(<< >>, << "T", "\\", "o", NonAscii >>),
                        Paragraph(footnote, << "f", "n" >>) >>,
      tables |-> << << "|", " ", "a", " ", "|", "\n", "|", " ", "-", "-", "-", " ", "|" >> >>,
      content |-> << "O", "n", " ", "\"", "X", "\"", "\n", "W", "e" >> ]
Blank == [ paragraphs |-> << >>, tables |-> << >>, content |-> << >> ]
Results == { Paper, Blank }

\* What a PDF file holds: nothing (there is no such file), or a document
\* in which the extraction service finds one of Results.
Documents == [ Paper |-> Paper, Blank |-> Blank ]
NoFile == "none"

\* A record that was cut off while it was written.
Cuts(text) == { 0, 1, Len(text) \div 2, Len(text) - 1 }
CutRecords == { TextFile(Prefix(dumps(Output(Paper), 0), n)) : n \in Cuts(dumps(Output(Paper), 0)) }
\* The records handed to _save_cache: every short string over Alphabet in
\* each place of the dict extract_content builds, and the dicts built from
\* Results.
Alphabet == { "a", "n", "\"", "\\", "\n", NonAscii }
Strings == UNION { [ 1..n -> Alphabet ] : n \in 0..MaxStr }
RecordOf(s) ==
    Output([ paragraphs |-> << Paragraph(sectionHeading, s), Paragraph(<< >>, s) >>,
             tables |-> << s >>,
             content |-> s ])
Records == { RecordOf(s) : s \in Strings } \cup { Output(r) : r \in Results }

FileStates == { Absent, TextFile(dumps(Output(Blank), 0)), NotUtf8, Unreadable } \cup CutRecords

(* ------------------------------- run() -------------------------------- *)

VARIABLES
    state,          \* agent.py: the module-level dict `state`
    messages,       \* run(): the transcript
    pc,             \* run(): where the controller is
    response,       \* run(): the reasoning service's last response
    tool_results,   \* run(): the results collected for the current response
    vault_path,     \* run(): its argument
    tools,          \* run(): the tool list sent on every call
    system_prompt,  \* run(): the instruction sent on every call
    failure,        \* the place that raised the exception that left run()
    handler_log,    \* the handlers called during the current run, in order
    raw_text,       \* the generative service's answer in the last execute_tool
    nexec,          \* execute_tool calls made so far in this process
    run             \* run() calls made so far in this process

rvars == << state, messages, pc, response, tool_results, vault_path, tools,
            system_prompt, failure, handler_log, raw_text, nexec, run >>

vars == << rvars, cvars, fvars, kvars >>

\* Content blocks of a response.  A text block is only printed.
TextBlock == [ type |-> "text", id |-> 0, name |-> "" ]
ToolUse(id, name) == [ type |-> "tool_use", id |-> id, name |-> name ]

\* for block in response.content: if block.type == "tool_use"
ToolUses(content) == SelectSeq(content, LAMBDA b : b.type = "tool_use")

\* NextToolUse with the blocks taken from the end of the response.
NextToolUse_reversed(content, results) ==
    ToolUses(content)[Len(ToolUses(content)) - Len(results)]

\* The block the for loop of run() executes next: results are collected
\* in the order of the blocks.
NextToolUse(content, results) == ToolUses(content)[Len(results) + 1]

NoResponse == [ stop_reason |-> "none", content |-> << >> ]

\* The responses the reasoning service may give: a text block, then up to
\* n tool_use blocks with fresh correlation identifiers first_id, ...
\* A response that declares the end of the turn ("end_of_turn", the value
\* run() tests for, or "end_turn") requests no tool.
Responses(first_id, n) ==
    LET uses == UNION { [ 1..k -> RequestNames ] : k \in 1..n }
    IN  { [ stop_reason |-> sr, content |-> << TextBlock >> ]
          : sr \in { "end_of_turn", "end_turn" } }
        \cup
        { [ stop_reason |-> "tool_use",
            content |-> << TextBlock >>
                        \o [ i \in 1..Len(u) |-> ToolUse(first_id + i - 1, u[i]) ] ]
          : u \in uses }

\* messages[0] of a run.
InitialMessage(vp) ==
    [ role |-> "user",
      content |-> << [ type |-> "text", id |-> 0,
                       name |-> IF vp # "None" THEN "task+vault" ELSE "task" ] >> ]

\* ToolResult that does not echo the correlation identifier.
ToolResult_no_id(id, r) == [ type |-> "tool_result", tool_use_id |-> 0, content |-> r ]

\* tool_results.append({"type": "tool_result", "tool_use_id": block.id, ...})
ToolResult(id, r) == [ type |-> "tool_result", tool_use_id |-> id, content |-> r ]

\* TranscriptAfterBatch with every result appended as a message of its own.
TranscriptAfterBatch_per_result(msgs, content, results) ==
    msgs \o << [ role |-> "assistant", content |-> content ] >>
         \o [ i \in 1..Len(results) |-> [ role |-> "user", content |-> << results[i] >> ] ]

\* The transcript after a batch: the assistant message, then one user
\* message holding all the results.
TranscriptAfterBatch(msgs, content, results) ==
    msgs \o << [ role |-> "assistant", content |-> content ],
               [ role |-> "user", content |-> results ] >>

\* NoToolsCalled with the else: break missing.
NoToolsCalled_never(results) == FALSE

\* if tool_results: ... else: break
NoToolsCalled(results) == results = << >>

\* Cleared with the dict left as the previous run left it.
Cleared_kept(st) == st

\* state.clear() that removes only the paper.
Cleared_paper_only(st) == [ k \in (DOMAIN st) \ { "paper" } |-> st[k] ]

\* state.clear() at the start of run().
Cleared(st) == EmptyDict

\* prepare_content has not been called.
NotCalled ==
    /\ sections = << >>
    /\ full_text = << >>
    /\ max_chars = 0
    /\ parts = << >>
    /\ prepared = << >>
    /\ cpc = "idle"

\* filter_vault_notes has not been called.
NotFiltered ==
    /\ titles = << >>
    /\ paper_keywords = << >>
    /\ paper_title = << >>
    /\ max_notes = 0
    /\ filtered = << >>
    /\ fpc = "idle"

\* Two calls of extract_content on one path, neither begun.
RunIds == { 1, 2 }
NotBegun == [ pc |-> "start", data |-> None, offset |-> 0, out |-> NoOutput ]
NoRuns ==
    /\ runs = [ r \in RunIds |-> NotBegun ]
    /\ last_writer = 0

\* extract_content has not been called and there are no cache files.
NotExtracted ==
    /\ files = [ cp \in AllCachePaths |-> Absent ]
    /\ read_only = {}
    /\ credentials = TRUE
    /\ pdf_path = "a.pdf"
    /\ output = NoOutput
    /\ service_calls = 0
    /\ ncalls = 0
    /\ record = None
    /\ loaded = LoadedNone
    /\ kpc = "idle"
    /\ pdf = [ p \in AllPaths |-> NoFile ]
    /\ ntemp = 0
    /\ NoRuns

\* The module is loaded and run() has not been called.
NotRun ==
    /\ state = EmptyDict
    /\ messages = << >>
    /\ pc = "IDLE"
    /\ response = NoResponse
    /\ tool_results = << >>
    /\ vault_path = "None"
    /\ tools = << >>
    /\ system_prompt = << >>
    /\ failure = "none"
    /\ handler_log = << >>
    /\ raw_text = ""
    /\ nexec = 0
    /\ run = 0

Init == NotRun /\ NotCalled /\ NotFiltered /\ NotExtracted

\* run(source, output_dir, vault_path) up to the while loop.
StartRun ==
    /\ pc \in { "IDLE", "DONE", "ABORTED" }
    /\ run < MaxRuns
    /\ \E vp \in VaultPaths :
          /\ vault_path' = vp
          /\ tools' = ActiveTools(vp)
          /\ system_prompt' = _build_system_prompt(vp)
          /\ messages' = << InitialMessage(vp) >>
    /\ state' = Cleared(state)
    /\ pc' = "AWAITING_MODEL"
    /\ response' = NoResponse
    /\ tool_results' = << >>
    /\ failure' = "none"
    /\ handler_log' = << >>
    /\ raw_text' = ""
    /\ run' = run + 1
    /\ UNCHANGED nexec
    /\ UNCHANGED << cvars, fvars, kvars >>

\* client.messages.create raises.
ModelCallFails ==
    /\ pc = "AWAITING_MODEL"
    /\ pc' = "ABORTED"
    /\ failure' = "run.messages.create"
    /\ UNCHANGED << state, messages, response, tool_results, vault_path, tools,
                    system_prompt, handler_log, raw_text, nexec, run >>
    /\ UNCHANGED << cvars, fvars, kvars >>

\* The response has stop_reason "end_of_turn": break before anything is
\* appended.
ModelEndsTurn ==
    /\ pc = "AWAITING_MODEL"
    /\ \E r \in Responses(nexec + 1, MaxExec - nexec) :
          /\ r.stop_reason = "end_of_turn"
          /\ response' = r
    /\ pc' = "DONE"
    /\ UNCHANGED << state, messages, tool_results, vault_path, tools,
                    system_prompt, failure, handler_log, raw_text, nexec, run >>
    /\ UNCHANGED << cvars, fvars, kvars >>

\* The response holds no tool_use block: the for loop collects nothing,
\* the assistant message is appended and the loop is left.
ModelRequestsNothing ==
    /\ pc = "AWAITING_MODEL"
    /\ \E r \in Responses(nexec + 1, MaxExec - nexec) :
          /\ r.stop_reason # "end_of_turn"
          /\ NoToolsCalled(ToolUses(r.content))
          /\ response' = r
          /\ messages' = Append(messages, [ role |-> "assistant", content |-> r.content ])
    /\ tool_results' = << >>
    /\ pc' = "DONE"
    /\ UNCHANGED << state, vault_path, tools, system_prompt, failure,
                    handler_log, raw_text, nexec, run >>
    /\ UNCHANGED << cvars, fvars, kvars >>

\* The response holds tool_use blocks, at most n of them: the for loop
\* starts.
ModelRequests(n) ==
    /\ pc = "AWAITING_MODEL"
    /\ \E r \in Responses(nexec + 1, n) :
          /\ r.stop_reason # "end_of_turn"
          /\ ~NoToolsCalled(ToolUses(r.content))
          /\ response' = r
    /\ tool_results' = << >>
    /\ pc' = "EXECUTING"
    /\ UNCHANGED << state, messages, vault_path, tools, system_prompt, failure,
                    handler_log, raw_text, nexec, run >>
    /\ UNCHANGED << cvars, fvars, kvars >>

\* Any batch the remaining executions allow.
ModelRequestsTools == ModelRequests(MaxExec - nexec)

\* One invocation per turn.
ModelRequestsOne == ModelRequests(IF nexec < MaxSteps THEN 1 ELSE 0)

Log(log, h) == IF h = "none" THEN log ELSE Append(log, h)

\* One iteration of the for loop: execute_tool returns and its result is
\* collected.
ExecuteToolReturns ==
    /\ pc = "EXECUTING"
    /\ Len(tool_results) < Len(ToolUses(response.content))
    /\ LET block == NextToolUse(response.content, tool_results)
       IN  \E ok \in BOOLEAN :
           \E o \in execute_tool(block.name, ok, SmallVault, state, nexec + 1) :
              /\ o.exc = "none"
              /\ state' = o.state
              /\ tool_results' = Append(tool_results, ToolResult(block.id, o.result))
              /\ handler_log' = Log(handler_log, o.handler)
              /\ raw_text' = o.raw
    /\ nexec' = nexec + 1
    /\ UNCHANGED << messages, pc, response, vault_path, tools, system_prompt,
                    failure, run >>
    /\ UNCHANGED << cvars, fvars, kvars >>

\* ExecuteToolRaises with the exception caught and the same invocation
\* executed again by the next iteration.
ExecuteToolRaises_retry ==
    /\ pc = "EXECUTING"
    /\ Len(tool_results) < Len(ToolUses(response.content))
    /\ nexec + 1 < MaxExec
    /\ LET block == NextToolUse(response.content, tool_results)
       IN  \E ok \in BOOLEAN :
           \E o \in execute_tool(block.name, ok, SmallVault, state, nexec + 1) :
              /\ o.exc # "none"
              /\ state' = o.state
              /\ handler_log' = Log(handler_log, o.handler)
              /\ raw_text' = o.raw
    /\ nexec' = nexec + 1
    /\ UNCHANGED << messages, pc, response, tool_results, vault_path, tools,
                    system_prompt, failure, run >>
    /\ UNCHANGED << cvars, fvars, kvars >>

\* One iteration of the for loop: execute_tool raises and the exception
\* leaves run().
ExecuteToolRaises ==
    /\ pc = "EXECUTING"
    /\ Len(tool_results) < Len(ToolUses(response.content))
    /\ LET block == NextToolUse(response.content, tool_results)
       IN  \E ok \in BOOLEAN :
           \E o \in execute_tool(block.name, ok, SmallVault, state, nexec + 1) :
              /\ o.exc # "none"
              /\ state' = o.state
              /\ failure' = o.exc
              /\ handler_log' = Log(handler_log, o.handler)
              /\ raw_text' = o.raw
    /\ pc' = "ABORTED"
    /\ nexec' = nexec + 1
    /\ UNCHANGED << messages, response, tool_results, vault_path, tools,
                    system_prompt, run >>
    /\ UNCHANGED << cvars, fvars, kvars >>

\* AppendTurn with the assistant message left out of the transcript.
AppendTurn_results_only ==
    /\ pc = "EXECUTING"
    /\ Len(tool_results) = Len(ToolUses(response.content))
    /\ messages' = Append(messages, [ role |-> "user", content |-> tool_results ])
    /\ pc' = "AWAITING_MODEL"
    /\ UNCHANGED << state, response, tool_results, vault_path, tools,
                    system_prompt, failure, handler_log, raw_text, nexec, run >>
    /\ UNCHANGED << cvars, fvars, kvars >>

\* AppendTurn in a loop that is left after its first batch.
AppendTurn_once ==
    /\ pc = "EXECUTING"
    /\ Len(tool_results) = Len(ToolUses(response.content))
    /\ messages' = TranscriptAfterBatch(messages, response.content, tool_results)
    /\ pc' = "DONE"
    /\ UNCHANGED << state, response, tool_results, vault_path, tools,
                    system_prompt, failure, handler_log, raw_text, nexec, run >>
    /\ UNCHANGED << cvars, fvars, kvars >>

\* After the for loop: the assistant message and the results are appended
\* and the while loop goes round.
AppendTurn ==
    /\ pc = "EXECUTING"
    /\ Len(tool_results) = Len(ToolUses(response.content))
    /\ messages' = TranscriptAfterBatch(messages, response.content, tool_results)
    /\ pc' = "AWAITING_MODEL"
    /\ UNCHANGED << state, response, tool_results, vault_path, tools,
                    system_prompt, failure, handler_log, raw_text, nexec, run >>
    /\ UNCHANGED << cvars, fvars, kvars >>

Next ==
    \/ StartRun
    \/ ModelCallFails
    \/ ModelEndsTurn
    \/ ModelRequestsNothing
    \/ ModelRequestsTools
    \/ ExecuteToolReturns
    \/ ExecuteToolRaises
    \/ AppendTurn

Spec == Init /\ [][Next]_vars

\* Runs in which the reasoning service requests one invocation per turn,
\* up to MaxSteps executions: long enough for the whole pipeline
\* parse_paper, scan_vault, digest_paper, link_concepts, ...
NextSingle ==
    \/ StartRun
    \/ ModelCallFails
    \/ ModelEndsTurn
    \/ ModelRequestsNothing
    \/ ModelRequestsOne
    \/ ExecuteToolReturns
    \/ ExecuteToolRaises
    \/ AppendTurn

SpecSingle == Init /\ [][NextSingle]_vars

\* Runs that make progress: the reasoning service requests one invocation
\* per turn for at most MaxTurns turns and then answers without one.
\* run() is sequential code: a call of the reasoning service returns or
\* raises, the for loop executes its next block, and after the last block
\* the turn is appended.
ModelRequestsTurn == ModelRequests(IF nexec < MaxTurns THEN 1 ELSE 0)
ModelAnswers == ModelCallFails \/ ModelEndsTurn \/ ModelRequestsNothing \/ ModelRequestsTurn
NextLive ==
    \/ StartRun
    \/ ModelCallFails
    \/ ModelEndsTurn
    \/ ModelRequestsNothing
    \/ ModelRequestsTurn
    \/ ExecuteToolReturns
    \/ ExecuteToolRaises
    \/ AppendTurn

SpecLive ==
    /\ Init
    /\ [][NextLive]_vars
    /\ WF_vars(ModelAnswers)
    /\ WF_vars(ExecuteToolReturns \/ ExecuteToolRaises)
    /\ WF_vars(AppendTurn)

\* A call prepare_content(sections, full_text, max_chars) on any of the
\* inputs above.
InitContent ==
    /\ NotRun
    /\ NotFiltered
    /\ NotExtracted
    /\ sections \in SectionInputs
    /\ full_text \in FullTexts
    /\ max_chars \in Budgets
    /\ parts = << >>
    /\ prepared = << >>
    /\ cpc = "called"

\* PrepareContent that drops the "Title" entry from the caller's dict
\* instead of building real_sections.
PrepareContent_in_place ==
    /\ cpc = "called"
    /\ parts' = prepare_parts(sections, max_chars)
    /\ prepared' = prepare_content(sections, full_text, max_chars)
    /\ sections' = real_sections(sections)
    /\ cpc' = "returned"
    /\ UNCHANGED << rvars, fvars, kvars, full_text, max_chars >>

PrepareContent ==
    /\ cpc = "called"
    /\ parts' = prepare_parts(sections, max_chars)
    /\ prepared' = prepare_content(sections, full_text, max_chars)
    /\ cpc' = "returned"
    /\ UNCHANGED << rvars, fvars, kvars, sections, full_text, max_chars >>

\* The same call made a second time, on the arguments as the first call
\* left them.
PrepareContentAgain ==
    /\ cpc = "returned"
    /\ parts' = prepare_parts(sections, max_chars)
    /\ prepared' = prepare_content(sections, full_text, max_chars)
    /\ cpc' = "returned_again"
    /\ UNCHANGED << rvars, fvars, kvars, sections, full_text, max_chars >>

NextContent == PrepareContent \/ PrepareContentAgain

SpecContent == InitContent /\ [][NextContent]_vars

\* A call filter_vault_notes(titles, paper_keywords, paper_title,
\* max_notes) on any of the inputs above.
InitFilter ==
    /\ NotRun
    /\ NotCalled
    /\ NotExtracted
    /\ titles \in TitleLists
    /\ paper_keywords \in KeywordLists
    /\ paper_title \in PaperTitles
    /\ max_notes \in 0..MaxNotes
    /\ filtered = << >>
    /\ fpc = "called"

FilterVaultNotes ==
    /\ fpc = "called"
    /\ filtered' = filter_vault_notes(titles, paper_keywords, paper_title, max_notes)
    /\ fpc' = "returned"
    /\ UNCHANGED << rvars, cvars, kvars, titles, paper_keywords, paper_title, max_notes >>

NextFilter == FilterVaultNotes

SpecFilter == InitFilter /\ [][NextFilter]_vars

\* Calls of extract_content, one after the other, on a disk that holds
\* any of the cache files above.
InitCache ==
    /\ NotRun
    /\ NotCalled
    /\ NotFiltered
    /\ \E local \in [ CachePaths -> FileStates ] :
          files = [ cp \in AllCachePaths |-> IF cp \in CachePaths THEN local[cp] ELSE Absent ]
    /\ read_only \in SUBSET CachePaths
    /\ credentials \in BOOLEAN
    /\ pdf_path = "a.pdf"
    /\ output = NoOutput
    /\ service_calls = 0
    /\ ncalls = 0
    /\ record = None
    /\ loaded = LoadedNone
    /\ kpc = "idle"
    /\ pdf = [ p \in AllPaths |-> IF p \in PdfPaths THEN "Paper" ELSE NoFile ]
    /\ ntemp = 0
    /\ NoRuns

\* extract_content(path), the extraction service finding one of results
\* in the file: the cached record if _load_cache finds one; otherwise the
\* extraction service is called, and what it returns is grouped, saved
\* and returned.
extract_content(path, results) ==
    LET cached == _load_cache(files, path)
    IN  /\ pdf_path' = path
        /\ ncalls' = ncalls + 1
        /\ \/ /\ cached.kind = "data"
              /\ cached.val.t # "null"
              /\ output' = Returns(cached.val)
              /\ UNCHANGED << files, service_calls >>
           \/ /\ cached.kind \notin { "data", "None" }
              /\ output' = Raises(cached.kind)
              /\ UNCHANGED << files, service_calls >>
           \/ /\ cached.kind = "None" \/ (cached.kind = "data" /\ cached.val.t = "null")
              /\ \/ /\ ~ credentials
                    /\ output' = Raises("EnvironmentError")
                    /\ UNCHANGED << files, service_calls >>
                 \/ /\ credentials
                    /\ service_calls' = service_calls + 1
                    /\ \/ /\ output' = Raises("HttpResponseError")
                          /\ UNCHANGED files
                       \/ \E result \in results :
                             /\ output' = Returns(Output(result))
                             /\ files' = _save_cache(files, read_only, path, Output(result))

\* A call extract_content(path) on a PDF file that holds any document.
ExtractContent ==
    /\ ncalls < MaxCalls
    /\ \E path \in PdfPaths : extract_content(path, Results)
    /\ UNCHANGED << rvars, cvars, fvars, read_only, credentials, record, loaded, kpc,
                    pdf, ntemp, runs, last_writer >>

NextCache == ExtractContent

SpecCache == InitCache /\ [][NextCache]_vars

\* _save_cache(pdf_path, record) and then _load_cache(pdf_path), on any
\* of the records above.
InitRoundTrip ==
    /\ NotRun
    /\ NotCalled
    /\ NotFiltered
    /\ \E local \in [ CachePaths -> { Absent, TextFile(dumps(Output(Blank), 0)), Unreadable } ] :
          files = [ cp \in AllCachePaths |-> IF cp \in CachePaths THEN local[cp] ELSE Absent ]
    /\ read_only \in SUBSET CachePaths
    /\ credentials = TRUE
    /\ pdf_path \in PdfPaths
    /\ output = NoOutput
    /\ service_calls = 0
    /\ ncalls = 0
    /\ record \in Records
    /\ loaded = LoadedNone
    /\ kpc = "called"
    /\ pdf = [ p \in AllPaths |-> IF p \in PdfPaths THEN "Paper" ELSE NoFile ]
    /\ ntemp = 0
    /\ NoRuns

SaveCache ==
    /\ kpc = "called"
    /\ files' = _save_cache(files, read_only, pdf_path, record)
    /\ kpc' = "saved"
    /\ UNCHANGED << rvars, cvars, fvars, read_only, credentials, pdf_path, output,
                    service_calls, ncalls, record, loaded, pdf, ntemp, runs, last_writer >>

LoadCache ==
    /\ kpc = "saved"
    /\ loaded' = _load_cache(files, pdf_path)
    /\ kpc' = "loaded"
    /\ UNCHANGED << rvars, cvars, fvars, files, read_only, credentials, pdf_path, output,
                    service_calls, ncalls, record, pdf, ntemp, runs, last_writer >>

NextRoundTrip == SaveCache \/ LoadCache

SpecRoundTrip == InitRoundTrip /\ [][NextRoundTrip]_vars

\* Runs of parse_paper, one after the other, on a local PDF file and on a
\* URL, while the local file may be replaced between the runs.
LocalPath == "a.pdf"
Sources == { LocalPath } \cup Urls

InitFetch ==
    /\ NotRun
    /\ NotCalled
    /\ NotFiltered
    /\ \E f \in FileStates :
          files = [ cp \in AllCachePaths |-> IF cp = _get_cache_path(LocalPath) THEN f ELSE Absent ]
    /\ read_only \in SUBSET { _get_cache_path(LocalPath) }
    /\ credentials \in BOOLEAN
    /\ pdf_path = LocalPath
    /\ output = NoOutput
    /\ service_calls = 0
    /\ ncalls = 0
    /\ record = None
    /\ loaded = LoadedNone
    /\ kpc = "idle"
    /\ \E d \in DOMAIN Documents \cup { NoFile } :
          pdf = [ p \in AllPaths |-> IF p = LocalPath THEN d ELSE NoFile ]
    /\ ntemp = 0
    /\ NoRuns

\* parse_paper(source) up to the end of extract_content (the metadata and
\* figure steps after it read no cache file and write none). fetch_pdf
\* downloads a URL into a new temporary file, or raises; a local path
\* is used as it is, or FileNotFoundError is raised.
ParsePaper ==
    /\ ncalls < MaxCalls
    /\ \E source \in Sources :
          IF source \in Urls
          THEN \/ /\ output' = Raises("RequestException")
                  /\ ncalls' = ncalls + 1
                  /\ UNCHANGED << files, service_calls, pdf_path, pdf, ntemp >>
               \/ \E d \in DOMAIN Documents :
                     /\ ntemp' = ntemp + 1
                     /\ pdf' = [ pdf EXCEPT ![TempPath(ntemp + 1)] = d ]
                     /\ extract_content(TempPath(ntemp + 1), { Documents[d] })
          ELSE IF pdf[source] = NoFile
          THEN /\ output' = Raises("FileNotFoundError")
               /\ ncalls' = ncalls + 1
               /\ UNCHANGED << files, service_calls, pdf_path, pdf, ntemp >>
          ELSE /\ extract_content(source, { Documents[pdf[source]] })
               /\ UNCHANGED << pdf, ntemp >>
    /\ UNCHANGED << rvars, cvars, fvars, read_only, credentials, record, loaded, kpc,
                    runs, last_writer >>

\* The local PDF file is replaced by another document before a run.
ChangePdf ==
    /\ ncalls < MaxCalls
    /\ \E d \in DOMAIN Documents :
          /\ d # pdf[LocalPath]
          /\ pdf' = [ pdf EXCEPT ![LocalPath] = d ]
    /\ UNCHANGED << rvars, cvars, fvars, files, read_only, credentials, pdf_path, output,
                    service_calls, ncalls, record, loaded, kpc, ntemp, runs, last_writer >>

NextFetch == ParsePaper \/ ChangePdf

SpecFetch == InitFetch /\ [][NextFetch]_vars

\* Two calls extract_content(LocalPath) whose steps interleave: reading
\* the cache file, calling the service, opening the cache file for
\* writing, and each write of buffered text to it.
InitRace ==
    /\ NotRun
    /\ NotCalled
    /\ NotFiltered
    /\ \E f \in FileStates :
          files = [ cp \in AllCachePaths |-> IF cp = _get_cache_path(LocalPath) THEN f ELSE Absent ]
    /\ read_only \in SUBSET { _get_cache_path(LocalPath) }
    /\ credentials \in BOOLEAN
    /\ pdf_path = LocalPath
    /\ output = NoOutput
    /\ service_calls = 0
    /\ ncalls = 0
    /\ record = None
    /\ loaded = LoadedNone
    /\ kpc = "idle"
    /\ pdf = [ p \in AllPaths |-> IF p = LocalPath THEN "Paper" ELSE NoFile ]
    /\ ntemp = 0
    /\ NoRuns

race_frame == << rvars, cvars, fvars, read_only, credentials, pdf_path, output, ncalls,
                 record, loaded, kpc, pdf, ntemp >>

\* cached = _load_cache(pdf_path); if cached is not None: return cached
RaceLoad(r) ==
    /\ runs[r].pc = "start"
    /\ LET cached == _load_cache(files, LocalPath)
       IN  runs' = [ runs EXCEPT ![r] =
                       IF cached.kind = "data" /\ cached.val.t # "null"
                       THEN [ @ EXCEPT !.pc = "done", !.out = Returns(cached.val) ]
                       ELSE IF cached.kind \notin { "data", "None" }
                       THEN [ @ EXCEPT !.pc = "done", !.out = Raises(cached.kind) ]
                       ELSE [ @ EXCEPT !.pc = "missed" ] ]
    /\ UNCHANGED << race_frame, files, service_calls, last_writer >>

\* The credentials are checked, the service is called and its result is
\* grouped into the output dict.
RaceExtract(r) ==
    /\ runs[r].pc = "missed"
    /\ \/ /\ ~ credentials
          /\ runs' = [ runs EXCEPT ![r].pc = "done", ![r].out = Raises("EnvironmentError") ]
          /\ UNCHANGED service_calls
       \/ /\ credentials
          /\ service_calls' = service_calls + 1
          /\ \/ runs' = [ runs EXCEPT ![r].pc = "done", ![r].out = Raises("HttpResponseError") ]
             \/ \E result \in Results :
                   runs' = [ runs EXCEPT ![r].pc = "extracted", ![r].data = Output(result) ]
    /\ UNCHANGED << race_frame, files, last_writer >>

\* _save_cache: open(cache_path, "w") empties the file, or raises the
\* IOError that _save_cache catches, after which extract_content returns.
RaceOpen(r) ==
    /\ runs[r].pc = "extracted"
    /\ IF _get_cache_path(LocalPath) \in read_only
       THEN /\ runs' = [ runs EXCEPT ![r].pc = "done", ![r].out = Returns(runs[r].data) ]
            /\ UNCHANGED << files, last_writer >>
       ELSE /\ runs' = [ runs EXCEPT ![r].pc = "writing", ![r].offset = 0 ]
            /\ files' = [ files EXCEPT ![_get_cache_path(LocalPath)] = Truncated_file(@) ]
            /\ last_writer' = r
    /\ UNCHANGED << race_frame, service_calls >>

\* _save_cache: the next buffered part of json.dump's text is written at
\* the offset of this call's file object; after the last part the file is
\* closed and extract_content returns its output.
RaceFlush(r) ==
    /\ runs[r].pc = "writing"
    /\ LET text == dumps(runs[r].data, 0)
           chunk == SubSeq(text, runs[r].offset + 1,
                           IF runs[r].offset + ChunkLen(text) < Len(text)
                           THEN runs[r].offset + ChunkLen(text) ELSE Len(text))
       IN  /\ files' = [ files EXCEPT ![_get_cache_path(LocalPath)].text =
                                         WriteAt(@, runs[r].offset, chunk) ]
           /\ runs' = [ runs EXCEPT ![r] =
                          IF runs[r].offset + Len(chunk) = Len(text)
                          THEN [ @ EXCEPT !.pc = "done", !.offset = Len(text),
                                          !.out = Returns(runs[r].data) ]
                          ELSE [ @ EXCEPT !.offset = runs[r].offset + Len(chunk) ] ]
    /\ last_writer' = r
    /\ UNCHANGED << race_frame, service_calls >>

NextRace == \E r \in RunIds : RaceLoad(r) \/ RaceExtract(r) \/ RaceOpen(r) \/ RaceFlush(r)

SpecRace == InitRace /\ [][NextRace]_vars

\* A run in its for loop, the transcript and the responses left out: the
\* dict is empty as run() cleared it, and the reasoning service may request
\* any step after any other, on a vault of any size.
InitPipeline ==
    /\ state = EmptyDict
    /\ messages = << >>
    /\ pc = "EXECUTING"
    /\ response = NoResponse
    /\ tool_results = << >>
    /\ vault_path = "/vault"
    /\ tools = ActiveTools("/vault")
    /\ system_prompt = _build_system_prompt("/vault")
    /\ failure = "none"
    /\ handler_log = << >>
    /\ raw_text = ""
    /\ nexec = 0
    /\ run = 1
    /\ NotCalled
    /\ NotFiltered
    /\ NotExtracted

\* One iteration of the for loop for a block that requests the step name:
\* execute_tool returns, or raises and the exception leaves run().
ExecuteStep(name) ==
    /\ pc = "EXECUTING"
    /\ nexec < MaxPipeline
    /\ \E ok \in BOOLEAN :
       \E o \in execute_tool(name, ok, AnyVault, state, nexec + 1) :
          /\ state' = o.state
          /\ failure' = o.exc
          /\ pc' = IF o.exc = "none" THEN "EXECUTING" ELSE "ABORTED"
          /\ handler_log' = Log(handler_log, o.handler)
          /\ raw_text' = o.raw
    /\ nexec' = nexec + 1
    /\ UNCHANGED << messages, response, tool_results, vault_path, tools,
                    system_prompt, run >>
    /\ UNCHANGED << cvars, fvars, kvars >>

NextPipeline == \E name \in RequestNames : ExecuteStep(name)

SpecPipeline == InitPipeline /\ [][NextPipeline]_vars

(* ------------------------------ properties ---------------------------- *)

\* A step of the for loop of run(): one execute_tool call.
ExecStep == pc = "EXECUTING" /\ nexec' = nexec + 1

\* The tool_use block that call executes, and the names requested.
Block == NextToolUse(response.content, tool_results)
Requested == [ i \in 1..Len(ToolUses(response.content)) |-> ToolUses(response.content)[i].name ]

\* The call returned r as the block's result.
Collected(r) ==
    /\ pc' = "EXECUTING"
    /\ tool_results' = Append(tool_results, ToolResult(Block.id, r))

\* The first turn of a run: nothing but the initial message is in the
\* transcript, so the batch started on the empty dict.
FirstTurn == pc = "EXECUTING" /\ Len(messages) = 1

\* C1: For every step with preconditions (digest_paper, link_concepts,
\* identify_gaps, write_note): when execute_tool is called for it while the
\* output of one of the steps it requires is absent from the state, the
\* call returns an error result naming an absent step, calls no handler and
\* leaves the state as it was.
C1_MissingPreconditionRejected ==
    [][ ( ExecStep /\ \E p \in Requires(Block.name) : OutputKey(p) \notin DOMAIN state )
        => /\ \E p \in Requires(Block.name) :
                 /\ OutputKey(p) \notin DOMAIN state
                 /\ Collected(Error("Must call " \o p \o " first"))
           /\ state' = state
           /\ handler_log' = handler_log ]_vars

\* In the transcript every assistant message that requests tools is followed
\* by a user message with one result per requested tool.
C2_TranscriptComplete ==
    \A i \in 1..Len(messages) :
       ( messages[i].role = "assistant" /\ ToolUses(messages[i].content) # << >> )
       => /\ i < Len(messages)
          /\ messages[i + 1].role = "user"
          /\ Len(messages[i + 1].content) = Len(ToolUses(messages[i].content))

\* C2: In a turn that requests tools the transcript is not modified while
\* the batch executes; after the whole batch exactly two messages are
\* appended, the assistant request and then one user message holding the
\* complete batch of results.  In the transcript every assistant message
\* that requests tools is followed by a user message with one result per
\* requested tool.
C2_TurnAppendedAtomically ==
    /\ []C2_TranscriptComplete
    /\ [][ /\ ( pc = "EXECUTING" /\ pc' \in { "EXECUTING", "ABORTED" } )
              => messages' = messages
           /\ ( pc = "EXECUTING" /\ pc' = "AWAITING_MODEL" )
              => /\ Len(tool_results) = Len(ToolUses(response.content))
                 /\ Len(messages') = Len(messages) + 2
                 /\ SubSeq(messages', 1, Len(messages)) = messages
                 /\ messages'[Len(messages) + 1] =
                        [ role |-> "assistant", content |-> response.content ]
                 /\ messages'[Len(messages) + 2] =
                        [ role |-> "user", content |-> tool_results ] ]_vars

\* C2 witness: a batch of two results has been appended with its request.
C2_Witness ==
    /\ pc = "AWAITING_MODEL"
    /\ Len(messages) = 3
    /\ messages[2].role = "assistant"
    /\ Len(ToolUses(messages[2].content)) = 2
    /\ messages[3].role = "user"
    /\ Len(messages[3].content) = 2

\* C3: Within a turn the requested tools are executed one at a time in the
\* order of the response, each on the state the previous one left: every
\* call executes the first block not yet answered, on the current state;
\* the batch [parse_paper, digest_paper] on the empty state runs
\* digest_paper with the paper present, [digest_paper, parse_paper] gives
\* digest_paper a precondition error.
C3_BatchInOrder ==
    /\ []( ( FirstTurn /\ Requested = << "parse_paper", "digest_paper" >>
                       /\ Len(tool_results) = 2 )
           => /\ tool_results[1] = ToolResult(ToolUses(response.content)[1].id, Success)
              /\ tool_results[2] = ToolResult(ToolUses(response.content)[2].id, Success)
              /\ state["digest"].paper = state["paper"].stamp )
    /\ []( ( FirstTurn /\ Requested = << "digest_paper", "parse_paper" >>
                       /\ Len(tool_results) >= 1 )
           => tool_results[1] = ToolResult(ToolUses(response.content)[1].id,
                                           Error("Must call parse_paper first")) )
    /\ [][ ExecStep
           => LET k == Len(tool_results) + 1
                  b == ToolUses(response.content)[k]
              IN  \E ok \in BOOLEAN :
                  \E o \in execute_tool(b.name, ok, SmallVault, state, nexec + 1) :
                     /\ state' = o.state
                     /\ \/ o.exc = "none" /\ tool_results' = Append(tool_results, ToolResult(b.id, o.result))
                        \/ o.exc # "none" /\ pc' = "ABORTED" /\ tool_results' = tool_results
         ]_vars

\* C3 witness: the batch [parse_paper, digest_paper] of a first turn has
\* run, digest_paper on the paper parse_paper stored.
C3_Witness ==
    /\ FirstTurn
    /\ Requested = << "parse_paper", "digest_paper" >>
    /\ Len(tool_results) = 2
    /\ tool_results[2].content = Success
    /\ "digest" \in DOMAIN state

\* C4: The controller's transitions are AWAITING_MODEL -> DONE (a response
\* with no tool_use block) and AWAITING_MODEL -> EXECUTING -> AWAITING_MODEL
\* (a response with at least one); a response without tool_use blocks ends
\* the run, and DONE is terminal: nothing of the run changes after it.
C4_ControllerTransitions ==
    [][ /\ ( pc = "AWAITING_MODEL" /\ pc' # "ABORTED" )
           => /\ pc' \in { "DONE", "EXECUTING" }
              /\ pc' = "DONE" <=> ToolUses(response'.content) = << >>
              /\ state' = state /\ nexec' = nexec
        /\ pc = "EXECUTING" => pc' \in { "EXECUTING", "AWAITING_MODEL", "ABORTED" }
        /\ ( pc = "EXECUTING" /\ pc' = "AWAITING_MODEL" )
           => /\ ToolUses(response.content) # << >>
              /\ Len(tool_results) = Len(ToolUses(response.content))
        /\ ( pc = "DONE" /\ run' = run ) => UNCHANGED vars
        /\ ( pc = "DONE" /\ run' # run ) => ( pc' = "AWAITING_MODEL" /\ run' = run + 1 )
      ]_vars

\* C4 witness: a run that made a tool turn has ended on a response without
\* tool_use blocks.
C4_Witness ==
    /\ pc = "DONE"
    /\ Len(messages) >= 3
    /\ ToolUses(response.content) = << >>

\* The checks of execute_tool that answer with an error result: the name
\* is no tool of the catalog, or an output the branch tests for is absent.
C5_DomainError(name, st) ==
    IF name \notin ToolNames THEN "Unknown tool: " \o name
    ELSE IF name = "digest_paper" /\ "paper" \notin DOMAIN st
         THEN "Must call parse_paper first"
    ELSE IF name \in { "link_concepts", "identify_gaps", "write_note" }
            /\ "digest" \notin DOMAIN st
         THEN "Must call digest_paper first"
    ELSE IF name = "link_concepts" /\ "vault_notes" \notin DOMAIN st
         THEN "Must call scan_vault first"
    ELSE ""

\* C5: A call that fails with a missing precondition or an unknown name
\* does not end the run: its error becomes that block's result in the
\* batch, the loop stays in the batch, and a batch whose blocks have all
\* been answered is appended and followed by the next reasoning call.
C5_DomainErrorsReturned ==
    [][ /\ ( ExecStep /\ C5_DomainError(Block.name, state) # "" )
           => Collected(Error(C5_DomainError(Block.name, state)))
        /\ ( pc = "EXECUTING" /\ Len(tool_results) = Len(ToolUses(response.content)) )
           => /\ pc' = "AWAITING_MODEL"
              /\ messages'[Len(messages')] = [ role |-> "user", content |-> tool_results ]
      ]_vars

\* C5 witness: a batch whose first block got a precondition error and
\* whose second block was executed all the same is in the transcript, and
\* the controller is about to call the reasoning service.
C5_Witness ==
    /\ pc = "AWAITING_MODEL"
    /\ Len(messages) = 3
    /\ Len(messages[3].content) = 2
    /\ messages[3].content[1].content = Error("Must call parse_paper first")
    /\ messages[3].content[2].content = Success

\* The places a step execution can raise from.
HandlerRaiseSites ==
    { "fetch_pdf", "extract_content", "scan_vault", "messages.create",
      "_parse_llm_json", "identify_gaps.print", "link_concepts.print", "render_note" }
ExecuteRaiseSites == HandlerRaiseSites \cup { "summary", "tool_input", "state[paper]" }

\* The error results execute_tool can return.
DomainErrorMessages ==
    { "Must call parse_paper first", "Must call digest_paper first",
      "Must call scan_vault first" }
    \cup { "Unknown tool: " \o n : n \in RequestNames \ ToolNames }

\* Every result of the transcript and of the batch being collected.
ResultsOf(msgs) ==
    UNION { { msgs[i].content[j].content : j \in 1..Len(msgs[i].content) }
            : i \in { k \in 2..Len(msgs) : msgs[k].role = "user" } }
AllResults ==
    ResultsOf(messages) \cup { tool_results[j].content : j \in 1..Len(tool_results) }

\* C6 as stated: a failure of any step execution does not abort the run;
\* the run is aborted only by a failure of the reasoning-service call.
C6_OnlyReasoningFailureAborts ==
    pc = "ABORTED" => failure = "run.messages.create"

\* C6 as amended: a step that fails a precondition check or has an unknown
\* name gives an error result and the run goes on; an exception raised
\* while a step executes (the source cannot be acquired, the extraction or
\* generative service fails, the generative output is malformed) leaves
\* run(): the run is aborted with the batch unfinished and neither the
\* request nor any result of the turn in the transcript.  Error results
\* therefore only ever report a missing precondition or an unknown name.
C6_HandlerFailureAborts ==
    /\ pc = "ABORTED" => failure \in ExecuteRaiseSites \cup { "run.messages.create" }
    /\ ( pc = "ABORTED" /\ failure \in ExecuteRaiseSites )
       => /\ Len(tool_results) < Len(ToolUses(response.content))
          /\ messages[Len(messages)].role = "user"
          /\ \A i \in 1..Len(messages) : messages[i].content # response.content
    /\ \A r \in AllResults :
          r.status = "error" => r.error \in DomainErrorMessages
    /\ pc # "ABORTED" => failure = "none"

\* C6 witness: the run was aborted because parse_paper could not acquire
\* the source.
C6_Witness ==
    /\ pc = "ABORTED"
    /\ failure = "fetch_pdf"
    /\ handler_log = << "parse_paper" >>

\* C7: When the generative service's answer inside digest_paper,
\* identify_gaps or link_concepts does not parse as JSON, the failure
\* leaves run(): the run is aborted, no result of the turn is appended,
\* the state is as before the call, and after the abort nothing of the run
\* happens any more (no retry, no further reasoning-service call).
C7_MalformedOutputFatal ==
    [][ /\ ( ExecStep /\ raw_text' = "not_json" )
           => /\ pc' = "ABORTED"
              /\ failure' = "_parse_llm_json"
              /\ messages' = messages
              /\ tool_results' = tool_results
              /\ state' = state
              /\ handler_log' = Append(handler_log, Block.name)
              /\ Block.name \in { "digest_paper", "identify_gaps", "link_concepts" }
        /\ ( pc = "ABORTED" /\ run' = run ) => UNCHANGED vars
      ]_vars

\* C7 witness: identify_gaps got an answer that is no JSON and the run is
\* aborted.
C7_Witness ==
    /\ pc = "ABORTED"
    /\ failure = "_parse_llm_json"
    /\ raw_text = "not_json"
    /\ handler_log[Len(handler_log)] = "identify_gaps"

\* C8: If a step's handler raises during execute_tool, the state after the
\* call equals the state before it; the state changes only in a call whose
\* handler returned (or when a run starts and clears it).
C8_FailedHandlerLeavesState ==
    [][ /\ ( ExecStep /\ failure' \in HandlerRaiseSites ) => state' = state
        /\ ( state' # state /\ run' = run )
           => /\ ExecStep
              /\ handler_log' = Append(handler_log, Block.name)
              /\ failure' \in { "none", "summary" }
              /\ DOMAIN state \subseteq DOMAIN state'
      ]_vars

\* C8 witness: digest_paper raised on a state holding the paper, and the
\* state holds the paper and no digest.
C8_Witness ==
    /\ pc = "ABORTED"
    /\ failure \in { "messages.create", "_parse_llm_json" }
    /\ handler_log = << "parse_paper", "digest_paper" >>
    /\ DOMAIN state = { "paper" }

\* C9: execute_tool called with a name that is no step of the catalog
\* returns the unknown-tool error as the block's result, calls no handler
\* and leaves the state unchanged.
C9_UnknownStepRejected ==
    [][ ( ExecStep /\ Block.name \notin ToolNames )
        => /\ Collected(Error("Unknown tool: " \o Block.name))
           /\ state' = state
           /\ handler_log' = handler_log ]_vars

\* C9 witness: an unknown name was requested on a state holding the paper
\* and answered with the unknown-tool error.
C9_Witness ==
    /\ pc = "EXECUTING"
    /\ Len(tool_results) = 2
    /\ Requested[2] \notin ToolNames
    /\ tool_results[2].content = Error("Unknown tool: summarize")
    /\ DOMAIN state = { "paper" }

\* C10: In a run without a vault path, a requested scan_vault or
\* link_concepts (steps outside the active subset) is answered as an
\* unknown step: no handler runs and the state is unchanged.
C10_InactiveStepRejected ==
    [][ ( ExecStep /\ vault_path = "None"
                   /\ Block.name \in { "scan_vault", "link_concepts" } )
        => /\ Collected(Error("Unknown tool: " \o Block.name))
           /\ state' = state
           /\ handler_log' = handler_log ]_vars


\* C11: On every call to the reasoning service the catalog and the system
\* instruction are the ones chosen from the vault path when the run
\* started: without a vault path the catalog is exactly parse_paper,
\* digest_paper, identify_gaps, write_note and the instruction lists those
\* four steps; with a vault path both hold all six steps.  Neither changes
\* between two turns of a run.
C11_CatalogFixedPerRun ==
    /\ []( pc = "AWAITING_MODEL"
           => /\ vault_path = "None"
                 => /\ Range(tools) = { "parse_paper", "digest_paper",
                                        "identify_gaps", "write_note" }
                    /\ Range(system_prompt) = Range(tools)
                    /\ Len(system_prompt) = 4
              /\ vault_path # "None"
                 => /\ Range(tools) = ToolNames
                    /\ Range(system_prompt) = ToolNames
                    /\ Len(system_prompt) = 6
              /\ Len(tools) = Cardinality(Range(tools)) )
    /\ [][ run' = run => /\ tools' = tools
                         /\ system_prompt' = system_prompt
                         /\ vault_path' = vault_path ]_vars

\* The second call of the second run, made without a vault path.
C11_Witness ==
    /\ pc = "AWAITING_MODEL"
    /\ Len(messages) = 3
    /\ vault_path = "None"
    /\ Len(tools) = 4
    /\ run = 2

\* The results answer the requested invocations one for one, in order.
Answers(results, content) ==
    /\ Len(results) = Len(ToolUses(content))
    /\ \A j \in 1..Len(results) :
          /\ results[j].type = "tool_result"
          /\ results[j].tool_use_id = ToolUses(content)[j].id

\* C12: The results message of a turn holds exactly one result per
\* requested invocation, in the order of the requests, each carrying the
\* correlation identifier of the invocation it answers; while a batch
\* executes, the results collected so far answer the first requests in
\* order.  Identifiers of one response are distinct, so no result is
\* dropped, duplicated or attached to another invocation.
C12_ResultsCorrelated ==
    /\ \A i \in 1..Len(messages) :
          ( messages[i].role = "assistant" /\ ToolUses(messages[i].content) # << >> )
          => /\ i < Len(messages)
             /\ Answers(messages[i + 1].content, messages[i].content)
    /\ pc \in { "EXECUTING", "ABORTED" }
       => /\ Len(tool_results) <= Len(ToolUses(response.content))
          /\ \A j \in 1..Len(tool_results) :
                tool_results[j].tool_use_id = ToolUses(response.content)[j].id
    /\ \A j, k \in 1..Len(ToolUses(response.content)) :
          ToolUses(response.content)[j].id = ToolUses(response.content)[k].id => j = k

\* A batch of three invocations answered in the transcript.
C12_Witness ==
    /\ Len(messages) = 3
    /\ Len(ToolUses(messages[2].content)) = 3
    /\ << messages[3].content[1].tool_use_id, messages[3].content[2].tool_use_id,
          messages[3].content[3].tool_use_id >> = << 1, 2, 3 >>

\* C13: The controller never retries.  Every execute_tool call of the for
\* loop settles the invocation it was made for: either its result is
\* collected as the answer to that invocation and the loop moves to the
\* next one, or the exception leaves run() and nothing more is executed in
\* that run.  The call makes at most one handler call, for the requested
\* step, and a run that a failed call has left makes no further step but
\* the start of another run.
C13_NoRetry ==
    /\ [][ ExecStep
           => /\ \/ /\ pc' = "EXECUTING"
                    /\ Len(tool_results') = Len(tool_results) + 1
                    /\ tool_results'[Len(tool_results')].tool_use_id = Block.id
                 \/ /\ pc' = "ABORTED"
                    /\ tool_results' = tool_results
              /\ handler_log' \in { handler_log, Append(handler_log, Block.name) }
              /\ response' = response ]_vars
    /\ [][ pc = "ABORTED" => /\ run' = run + 1
                             /\ nexec' = nexec
                             /\ handler_log' = << >> ]_vars
    /\ [][ ~ExecStep => ( nexec' = nexec /\ handler_log' \in { handler_log, << >> } ) ]_vars

\* The generative service failed inside digest_paper, the second invocation
\* of a batch of three: the handler was called once and the third
\* invocation was never executed.
C13_Witness ==
    /\ pc = "ABORTED"
    /\ failure = "messages.create"
    /\ handler_log = << "parse_paper", "digest_paper" >>
    /\ Requested = << "parse_paper", "digest_paper", "identify_gaps" >>
    /\ Len(tool_results) = 1
    /\ nexec = 2

\* The correlation identifiers of the invocations requested in the current
\* run: those of the transcript and those of the response being executed.
IdsOfRun ==
    { b.id : b \in UNION { Range(ToolUses(messages[i].content)) : i \in 1..Len(messages) } }
    \cup { b.id : b \in Range(ToolUses(response.content)) }

\* C14: The execution state is empty when a run starts: at the first call
\* to the reasoning service of every run the state holds no entry, and a
\* step that starts a run leaves the state empty.  Every entry the state
\* holds was produced by an invocation of the current run, so no output of
\* an earlier run is visible to a step of a later one.
C14_StateClearedAtStart ==
    /\ []( ( pc = "AWAITING_MODEL" /\ Len(messages) = 1 ) => state = EmptyDict )
    /\ []( pc # "IDLE"
           => \A k \in DOMAIN state :
                 /\ state[k].stamp \in IdsOfRun
                 /\ k = "digest" => /\ state[k].paper \in IdsOfRun
                                    /\ state[k].linked_by \in IdsOfRun \cup { 0 }
                 /\ k = "gaps" => state[k].digest \in IdsOfRun )
    /\ [][ run' # run => state' = EmptyDict ]_vars

\* The second run parses its paper after the first run executed an
\* invocation: the state holds the second run's paper only.
C14_Witness ==
    /\ run = 2
    /\ nexec = 2
    /\ handler_log = << "parse_paper" >>
    /\ DOMAIN state = { "paper" }
    /\ state["paper"].stamp = 2

\* C15: write_note requires the outputs of digest_paper and identify_gaps.
\* In every state where the gaps output is absent, execute_tool for
\* write_note returns a precondition error, renders no note and leaves the
\* state as it was.
C15_WriteNoteNeedsGaps ==
    [][ ( ExecStep /\ Block.name = "write_note" /\ "gaps" \notin DOMAIN state )
        => /\ \E p \in { "digest_paper", "identify_gaps" } :
                 Collected(Error("Must call " \o p \o " first"))
           /\ "write_note" \notin Range(handler_log')
           /\ state' = state ]_vars

\* The call returned a success summary as the block's result.
Succeeded == Collected(Success)

\* C16: parse_paper must be called first: no other step completes
\* successfully before parse_paper has completed successfully in the run,
\* that is, while the state holds no paper.
C16_ParsePaperFirst ==
    [][ ( ExecStep /\ Block.name # "parse_paper" /\ Succeeded )
        => "paper" \in DOMAIN state ]_vars

\* A successful execution of the current block leaves every entry of the
\* state outside `written` as it was, and adds no key outside it.
WritesOnly(written) ==
    /\ DOMAIN state \subseteq DOMAIN state'
    /\ DOMAIN state' \subseteq DOMAIN state \cup written
    /\ \A k \in DOMAIN state \ written : state'[k] = state[k]

\* C17 as stated: a successful step execution stores its output under that
\* step's own entry only and leaves the entries of all other steps unchanged, for every
\* step of the catalog (link_concepts included).
C17_OwnEntryOnly ==
    [][ ( ExecStep /\ Succeeded ) => WritesOnly({ OutputKey(Block.name) } \ { "none" }) ]_vars

\* C17 as amended: a successful execution of parse_paper, scan_vault, digest_paper or
\* identify_gaps stores the output of that call under the step's own entry
\* and leaves all other entries unchanged; a successful write_note changes
\* no entry.  A successful link_concepts stores its concept list under
\* linked_concepts and also replaces the digest entry by the digest its
\* handler returned (the stored digest itself when the vault list is
\* empty, otherwise that digest with links embedded); it leaves the other
\* entries unchanged.
C17_OwnEntryAndLinkedDigest ==
    [][ ( ExecStep /\ Succeeded )
        => LET own == { OutputKey(Block.name) } \ { "none" }
           IN  /\ \A k \in own : /\ k \in DOMAIN state'
                                 /\ state'[k].stamp = nexec + 1
               /\ Block.name # "link_concepts" => WritesOnly(own)
               /\ Block.name = "link_concepts"
                  => /\ WritesOnly(own \cup { "digest" })
                     /\ state'["digest"] =
                           IF state["vault_notes"].empty
                           THEN state["digest"]
                           ELSE [ state["digest"] EXCEPT !.linked_by = nexec + 1 ] ]_vars

\* link_concepts succeeded on a vault list with titles: the digest entry
\* is the linked digest, the paper and vault_notes entries are as before.
C17_Witness ==
    /\ DOMAIN state = { "paper", "vault_notes", "digest", "linked_concepts" }
    /\ handler_log[Len(handler_log)] = "link_concepts"
    /\ state["digest"].linked_by = state["linked_concepts"].stamp
    /\ state["digest"].stamp < state["linked_concepts"].stamp
    /\ pc = "EXECUTING"

\* prepare_content has returned; the part ends with the truncation marker;
\* the number of entries of the mapping other than "Title".
Returned_content == cpc = "returned"
IsTruncated(part) ==
    /\ Len(part) >= Len(Truncated)
    /\ SubSeq(part, Len(part) - Len(Truncated) + 1, Len(part)) = Truncated
RealBlocks == Cardinality({ i \in 1..Len(sections) : sections[i].name # Title })

\* C18: The length of the string prepare_content returns never exceeds the
\* budget plus the length of one truncation marker: the fallback marker
\* when the mapping is sparse, the section marker otherwise.
C18_LengthBounded ==
    Returned_content
    => Len(prepared) <= max_chars
                        + ( IF RealBlocks < 3 THEN Len(ContentTruncated) ELSE Len(Truncated) )

\* A section was truncated and what was emitted fills the budget up to the
\* margin kept for the marker.
C18_Witness ==
    /\ Returned_content
    /\ RealBlocks >= 3
    /\ \E i \in 1..Len(parts) : IsTruncated(parts[i])
    /\ Len(prepared) >= max_chars - 35
    /\ Len(prepared) <= max_chars

\* C19: When the mapping holds fewer than 3 blocks other than "Title",
\* prepare_content returns the first max_chars characters of the fallback
\* text, followed by the marker "[Content truncated due to length]" exactly
\* when the fallback text is longer than max_chars.
C19_SparseFallback ==
    ( Returned_content /\ RealBlocks < 3 )
    => LET n == IF Len(full_text) < max_chars THEN Len(full_text) ELSE max_chars
       IN  /\ Len(prepared) >= n
           /\ \A i \in 1..n : prepared[i] = full_text[i]
           /\ Len(full_text) > max_chars
              => SubSeq(prepared, n + 1, Len(prepared)) = ContentTruncated
           /\ Len(full_text) <= max_chars => Len(prepared) = n

\* Two blocks and a title: the long fallback text is cut at the budget and
\* marked.
C19_Witness ==
    /\ Returned_content
    /\ Len(sections) = 3
    /\ RealBlocks = 2
    /\ Len(full_text) > max_chars
    /\ max_chars > 0
    /\ Len(prepared) = max_chars + Len(ContentTruncated)

\* C20: As soon as a block would overflow the remaining budget it is
\* truncated and emission stops: no block is emitted after a truncated
\* block, neither by the rest of the first pass nor by the second pass.
C20_StopsAfterTruncation ==
    Returned_content => \A i \in 1..(Len(parts) - 1) : ~IsTruncated(parts[i])

\* The scenario: the mapping holds "Title", "1. Abstract" with a short
\* text and "2. Methods" with a long text, and the budget is 50.
AbstractName == << "1", ".", " ", "A", "b", "s", "t", "r", "a", "c", "t" >>
MethodsName == << "2", ".", " ", "M", "e", "t", "h", "o", "d", "s" >>
C21_Scenario ==
    /\ Returned_content
    /\ max_chars = 50
    /\ { sections[i] : i \in 1..Len(sections) }
         = { [ name |-> Title, text |-> ShortText ],
             [ name |-> AbstractName, text |-> ShortText ],
             [ name |-> MethodsName, text |-> LongText ] }

\* The string s starts with p.
StartsWith(s, p) == Len(s) >= Len(p) /\ SubSeq(s, 1, Len(p)) = p

\* C21 as stated: in the scenario the output begins with the Abstract
\* block's header, contains the Methods block truncated with a truncation
\* marker, and is at most 50 plus the marker length long.
C21_ScenarioAsStated ==
    C21_Scenario
    => /\ StartsWith(prepared, Header(AbstractName))
       /\ \E i \in 1..Len(parts) :
              StartsWith(parts[i], Header(MethodsName)) /\ IsTruncated(parts[i])
       /\ Len(prepared) <= 50 + Len(Truncated)

\* C21 as amended: in the scenario the mapping is sparse (two blocks other
\* than "Title"), so no block is emitted: the output is the first 50
\* characters of the fallback text, followed by the fallback marker when
\* the fallback text is longer than 50, and its length is at most 50 plus
\* the length of that marker.
C21_ScenarioFallsBack ==
    C21_Scenario
    => /\ parts = << >>
       /\ prepared = SubSeq(full_text, 1, IF Len(full_text) < 50 THEN Len(full_text) ELSE 50)
                     \o ( IF Len(full_text) > 50 THEN ContentTruncated ELSE << >> )
       /\ ~StartsWith(prepared, Header(AbstractName))
       /\ Len(prepared) <= 50 + Len(ContentTruncated)

\* The scenario with a long fallback text: 50 characters of it and the
\* marker are returned.
C21_Witness ==
    /\ C21_Scenario
    /\ sections[1].name = Title
    /\ sections[2].name = AbstractName
    /\ Len(full_text) > 50
    /\ Len(prepared) = 50 + Len(ContentTruncated)

\* The block a part was emitted for; whether a block name matches a
\* priority name, and the first priority it matches; where a block stands
\* in the mapping.
BlockOf(part) ==
    CHOOSE n \in { sections[i].name : i \in 1..Len(sections) } : StartsWith(part, Header(n))
Matching(name) ==
    { p \in 1..Len(PRIORITY_SECTIONS) : _fuzzy_match_section(name, PRIORITY_SECTIONS[p]) }
FirstMatch(name) == CHOOSE p \in Matching(name) : \A q \in Matching(name) : p <= q
PlaceOf(name) == CHOOSE i \in 1..Len(sections) : sections[i].name = name

\* C22: In the normal case (3 or more blocks other than "Title") every
\* emitted block that matches a priority name precedes every emitted
\* unmatched block; matched blocks appear in the order of their first
\* matching priority name, not in input order; unmatched blocks appear in
\* the order of the mapping.
C22_EmissionOrder ==
    ( Returned_content /\ RealBlocks >= 3 )
    => \A i, j \in 1..Len(parts) :
          i < j
          => LET a == BlockOf(parts[i])
                 b == BlockOf(parts[j])
             IN  /\ ~( Matching(a) = {} /\ Matching(b) # {} )
                 /\ ( Matching(a) # {} /\ Matching(b) # {} ) => FirstMatch(a) <= FirstMatch(b)
                 /\ ( Matching(a) = {} /\ Matching(b) = {} ) => PlaceOf(a) < PlaceOf(b)

C39_EmittedAtMostOnce ==
    ( Returned_content /\ RealBlocks >= 3 )
    => \A i, j \in 1..Len(parts) : i < j => BlockOf(parts[i]) # BlockOf(parts[j])

(* -------------------------- filter_vault_notes --------------------------- *)

Returned_filter == fpc = "returned"

\* filter_vault_notes went past its early return.
FilterApplies == Returned_filter /\ Len(titles) > max_notes

\* How many times t occurs in the list seq.
Count(seq, t) == Cardinality({ i \in 1..Len(seq) : seq[i] = t })

Score(t) == Overlap(t, Keywords(paper_keywords, paper_title))

\* The titles of the list that were not all returned.
Excluded == { t \in Range(titles) : Count(filtered, t) < Count(titles, t) }

Reorderings(seq) ==
    { [ i \in 1..Len(seq) |-> seq[p[i]] ] :
        p \in { q \in [ 1..Len(seq) -> 1..Len(seq) ] :
                  \A i, j \in 1..Len(seq) : q[i] = q[j] => i = j } }

Distinct(seq) == \A i, j \in 1..Len(seq) : seq[i] = seq[j] => i = j

\* C26: for a list of distinct titles, filtering any permutation of the
\* list with the same keywords, paper title and max_notes selects the same
\* set of titles.
C26_OrderIndependent ==
    (Returned_filter /\ Distinct(titles)) =>
        \A perm \in Reorderings(titles) :
           Range(filter_vault_notes(perm, paper_keywords, paper_title, max_notes))
             = Range(filtered)

\* The filter cut down a list of distinct titles whose first max_notes
\* titles are not the selected ones, two of the titles having equal score.
C26_Witness ==
    /\ FilterApplies
    /\ Distinct(titles)
    /\ max_notes >= 1
    /\ Range(filtered) # Range(Prefix(titles, max_notes))
    /\ \E i, j \in 1..Len(titles) : i # j /\ Score(titles[i]) = Score(titles[j])

\* Everything that is not a letter or a digit.
NonAlphanumeric == NonWordChars \cup { "_" }

\* The tokens of s: lower-cased, split at the non-alphanumeric characters,
\* those of length <= 2 dropped.
LongTokens(s) == { w \in Range(Pieces(lower(s), NonAlphanumeric, 1, << >>)) : Len(w) > 2 }

\* C27: the keyword set holds no token of length <= 2, and it is built by
\* lower-casing and splitting at non-alphanumeric characters, from the
\* keywords (tags, section names) and from the paper title alike.
C27_KeywordSet ==
    FilterApplies =>
        LET keywords == Keywords(paper_keywords, paper_title)
        IN  /\ \A w \in keywords : Len(w) > 2
            /\ keywords = UNION { LongTokens(paper_keywords[i]) : i \in 1..Len(paper_keywords) }
                           \cup LongTokens(paper_title)

(* ------------------------------- the cache ------------------------------- *)

\* The cache file of the last call.
CacheFile == files[_get_cache_path(pdf_path)]

\* The cache file of the last call can be written, and read once written.
Storable ==
    /\ _get_cache_path(pdf_path) \notin read_only
    /\ CacheFile.kind # "unreadable"

\* A step of extract_content on the path of the call before it, which
\* returned.
SecondRun ==
    /\ ncalls' = ncalls + 1
    /\ output.kind = "returned"
    /\ pdf_path' = pdf_path

\* The step returns what the call before it returned, without a call of
\* the extraction service.
ReturnsPersisted ==
    /\ output'.kind = "returned"
    /\ Same(output'.val, output.val)
    /\ service_calls' = service_calls

Corrupt(f) ==
    \/ f.kind \in { "bytes", "unreadable" }
    \/ f.kind = "text" /\ ~ json_load(f.text).ok

\* C29: a call of extract_content that finds a corrupt or unreadable cache
\* record does not fail because of it (it raises only what a call without
\* a record raises), and when it returns it has called the extraction
\* service, returns its result and has overwritten the record with it.
C29_CorruptIsMiss ==
    [][(ncalls' = ncalls + 1 /\ Corrupt(files[_get_cache_path(pdf_path')])) =>
          /\ output'.kind \in { "returned", "EnvironmentError", "HttpResponseError" }
          /\ output'.kind = "returned" =>
                /\ service_calls' = service_calls + 1
                /\ \E result \in Results : Same(output'.val, Output(result))
                /\ files'[_get_cache_path(pdf_path')].text = dumps(output'.val, 0)]_vars

Extraction ==
    /\ ncalls' = ncalls + 1
    /\ output'.kind \notin { "RequestException", "FileNotFoundError" }

\* The file holds a record json.load accepts.
Parseable(f) == f.kind = "text" /\ json_load(f.text).ok

\* C32: an extraction for a path whose cache file holds a parseable record
\* returns exactly that record, does not call the extraction service and
\* leaves every cache file as it is, whatever the PDF file holds at that
\* time.
C32_StaleRecordReused ==
    [][(Extraction /\ Parseable(files[_get_cache_path(pdf_path')])) =>
          /\ output'.kind = "returned"
          /\ Same(output'.val, json_load(files[_get_cache_path(pdf_path')].text).val)
          /\ service_calls' = service_calls
          /\ files' = files]_vars

\* The last run found the document Blank in the local PDF file (the file
\* is only replaced before a run) and returned the record of Paper, which
\* an earlier run had written.
C32_Witness ==
    /\ ncalls = MaxCalls
    /\ pdf_path = LocalPath
    /\ pdf[LocalPath] = "Blank"
    /\ output.kind = "returned"
    /\ Same(output.val, Output(Paper))
    /\ CacheFile = TextFile(dumps(Output(Paper), 0))

\* C33: a run on a URL whose download succeeded stores it in a file that
\* did not exist and looks up the cache by that file's path: there is no
\* record for it, whatever earlier runs wrote, so the run does not
\* return a cached record; it calls the extraction service (when the
\* credentials are set; without them it raises) and what it returns is
\* the result of that call, written next to the new file.
C33_UrlNeverHits ==
    [][(ncalls' = ncalls + 1 /\ ntemp' = ntemp + 1) =>
          /\ pdf_path' = TempPath(ntemp')
          /\ \A n \in 1..ntemp : pdf_path' # TempPath(n)
          /\ files[_get_cache_path(pdf_path')].kind = "absent"
          /\ credentials => service_calls' = service_calls + 1
          /\ output'.kind = "returned" =>
                /\ service_calls' = service_calls + 1
                /\ files'[_get_cache_path(pdf_path')] = TextFile(dumps(output'.val, 0))]_vars

\* Two runs on the URL, both downloads holding Paper: each called the
\* extraction service and wrote a record of its own.
C33_Witness ==
    /\ ntemp = 2
    /\ ncalls = 2
    /\ service_calls = 2
    /\ output.kind = "returned"
    /\ pdf[TempPath(1)] = "Paper"
    /\ pdf[TempPath(2)] = "Paper"
    /\ files[_get_cache_path(TempPath(1))] = TextFile(dumps(Output(Paper), 0))
    /\ files[_get_cache_path(TempPath(2))] = TextFile(dumps(Output(Paper), 0))

\* Both calls have ended.
BothDone == \A r \in RunIds : runs[r].pc = "done"

\* C31: with two interleaved calls on one path, a call that returns
\* returns a complete result (one that the service produced for it or
\* that was persisted whole), and once both have ended and one of them
\* wrote, the cache file holds the complete record of the call that wrote
\* last.
C31_LastWriterWins ==
    /\ \A r \in RunIds :
          runs[r].out.kind = "returned" =>
             \E result \in Results : Same(runs[r].out.val, Output(result))
    /\ (BothDone /\ last_writer # 0) =>
          files[_get_cache_path(LocalPath)].text = dumps(runs[last_writer].data, 0)

(* ------------------------------ the pipeline ----------------------------- *)

Has(k) == k \in DOMAIN state

\* C34: the entries of the state dict are dependency-closed in every state
\* of a run: a digest only with a paper, gaps only with a digest,
\* linked_concepts only with a digest and vault_notes; and no step fails
\* on state["paper"] being absent.
C34_DependencyClosed ==
    /\ Has("digest") => Has("paper")
    /\ Has("gaps") => Has("digest")
    /\ Has("linked_concepts") => (Has("digest") /\ Has("vault_notes"))
    /\ failure # "state[paper]"

\* In a second run, identify_gaps and then write_note ran to their end on
\* a paper and a digest of that run.
C34_Witness ==
    /\ run = 2
    /\ Has("gaps")
    /\ Len(handler_log) >= 2
    /\ handler_log[Len(handler_log) - 1] = "identify_gaps"
    /\ handler_log[Len(handler_log)] = "write_note"
    /\ failure = "none"

\* C35: the title list stored by scan_vault never has more than 500
\* titles, whatever the size of the vault and whether or not parse_paper
\* was executed before scan_vault.
C35_AtMost500Titles ==
    Has("vault_notes") => state["vault_notes"].count <= DefaultMaxNotes

\* C36: whenever the dict holds linked_concepts, its digest is the digest
\* the same link_concepts execution stored: a digest computed before that
\* execution, carrying its links when the vault list had titles.
C36_DigestOfLinkedConcepts ==
    Has("linked_concepts")
    => /\ state["digest"].stamp < state["linked_concepts"].stamp
       /\ ~ state["linked_concepts"].empty
          => state["digest"].linked_by = state["linked_concepts"].stamp

(* ----------------------------- the transcript ---------------------------- *)

\* The transcript begins with the run's initial user message, its roles
\* alternate from there, and its last message is a user message.
Alternating ==
    /\ messages # << >>
    /\ messages[1] = InitialMessage(vault_path)
    /\ \A i \in 1..Len(messages) :
          messages[i].role = IF i % 2 = 1 THEN "user" ELSE "assistant"
    /\ messages[Len(messages)].role = "user"

\* C37: at every call of the reasoning service the transcript starts with
\* the initial user message, alternates user and assistant and ends with
\* a user message; the first call of a run is made on one message and
\* every completed tool turn adds exactly two (2k+1 after k turns); during
\* a run the messages already in the transcript stay as they are.
C37_TranscriptShape ==
    /\ [] ( pc = "AWAITING_MODEL" => Alternating )
    /\ [][ /\ ( pc \notin { "AWAITING_MODEL", "EXECUTING" } /\ pc' = "AWAITING_MODEL" )
              => Len(messages') = 1
           /\ ( pc = "EXECUTING" /\ pc' = "AWAITING_MODEL" )
              => Len(messages') = Len(messages) + 2
           /\ ( pc = "AWAITING_MODEL" /\ pc' = "EXECUTING" )
              => messages' = messages
           /\ pc \in { "AWAITING_MODEL", "EXECUTING" }
              => /\ Len(messages') >= Len(messages)
                 /\ SubSeq(messages', 1, Len(messages)) = messages ]_vars

\* The reasoning service is called after two completed tool turns, on a
\* transcript of five messages.
C37_Witness ==
    /\ pc = "AWAITING_MODEL"
    /\ Len(messages) = 5
    /\ Alternating

(* ------------------------------ termination ------------------------------ *)

====
